---- MODULE Spec2Model ----
(***************************************************************************)
(* A model of the dsmr5 crate: the streaming Reader (src/reader.rs), the   *)
(* frame extractor Readout::to_telegram (src/lib.rs), the per-line object  *)
(* iteration Telegram::objects, the field decoders (src/types.rs) and the  *)
(* layered dispatchers (src/obis/dsmr4.rs, dsmr5.rs, e_mucs.rs).           *)
(*                                                                         *)
(* Bytes are integers 0..255.  An item of the byte source is a byte        *)
(* (Ok(b)) or IoErr (Err(e)).                                              *)
(***************************************************************************)
EXTENDS Integers, Sequences, FiniteSets, TLC

VARIABLES
    stream,    \* Reader.stream: every item the byte source will supply
    pos,       \* number of items of the source already taken by stream.next()
    results,   \* the items Reader::next has returned so far, in call order
    spans,     \* history: per call, the source positions it started at, found
               \* its start marker at, and stopped at
    input,     \* history: the pieces the Readout under test was built from
    readout,   \* Readout.buffer, the buffer to_telegram is called on
    telegram,  \* what to_telegram returned, Pending before the call
    iter,      \* the iterator Telegram::objects returned: the text left
    yielded,   \* the items that iterator has yielded, in order
    objLine,   \* the body line handed to the dispatchers
    parsed,    \* per vocabulary layer, what its parse_line returned for objLine
    call,      \* the field decoder called and its arguments
    ret,       \* what that call returned, Pending before it
    fold,      \* the conversion under way: its State type and the items
               \* Telegram::objects is to yield
    state,     \* the accumulator of try_fold, a State
    applied,   \* the items try_fold has taken from the iterator
    converted  \* what the conversion returned, Pending before it returns

vars == <<stream, pos, results, spans, input, readout, telegram, iter, yielded,
          objLine, parsed, call, ret, fold, state, applied, converted>>

----------------------------------------------------------------------------
(* Program constants.                                                      *)

Slash == 47          \* b'/'  the start marker
Bang == 33           \* b'!'  the terminator
CrcLen == 4          \* the checksum bytes copied after the terminator
IoErr == -1          \* Err(e): the byte source failed on this item
MinLen == 16         \* to_telegram: buffer.len() < 16
MaxU16 == 65535      \* u16::MAX, the type of given_checksum
MaxU8 == 255         \* u8::MAX, the type of a timestamp field and a channel
MaxNum == 999999999  \* every u64 field is at most 9 digits wide: no overflow
TstLen == 15         \* TST::parse: body.len() < 15
Poly == 40961        \* 0xA001, the polynomial of crc16::ARC
BlankLine == <<13, 10, 13, 10>>     \* "\r\n\r\n"

(* Bounds of the model.                                                    *)

ReadoutLen == 112    \* capacity of the Readout to_telegram is run on (1024)
MaxBodyLen == 4      \* a generated field body has at most this many characters
MaxWidth == 3        \* a generated width, point or maximum is at most this
MaxLines == 3        \* a telegram body has at most this many lines
BufLen == 8          \* capacity of Reader::next's buffer (2048 in the source)
MaxPieces == 7       \* a stream of bytes is made of at most this many pieces
MaxErrPieces == 5    \* a stream with failing items, of at most this many

----------------------------------------------------------------------------
(* Reader::next, src/reader.rs.                                            *)

None == [kind |-> "None"]
BufferOverFlow == [kind |-> "BufferOverFlow"]
IOError == [kind |-> "IOError"]
Readout(buffer) == [kind |-> "Readout", buffer |-> buffer]

ZeroBuffer == [k \in 1..BufLen |-> 0]

(* Seeking with a failing item passed over like any other byte.           *)
RECURSIVE Seeking_SkipErr(_, _)
Seeking_SkipErr(s, p) ==
    IF p >= Len(s) THEN [found |-> "end", pos |-> p]
    ELSE IF s[p + 1] = Slash THEN [found |-> "start", pos |-> p + 1]
    ELSE Seeking_SkipErr(s, p + 1)

(* The first loop: take items until a start marker, an error or the end.   *)
RECURSIVE Seeking(_, _)
Seeking(s, p) ==
    IF p >= Len(s) THEN [found |-> "end", pos |-> p]
    ELSE IF s[p + 1] = IoErr THEN [found |-> "error", pos |-> p + 1]
    ELSE IF s[p + 1] = Slash THEN [found |-> "start", pos |-> p + 1]
    ELSE Seeking(s, p + 1)

(* copy_byte with the capacity tested before the item is taken: an        *)
(* overflow leaves its item in the source.                                 *)
copy_byte_NoTake(s, p, buf, i) ==
    IF p >= Len(s) THEN [ret |-> "end", pos |-> p, buf |-> buf, i |-> i]
    ELSE IF i >= Len(buf)
        THEN [ret |-> "overflow", pos |-> p, buf |-> buf, i |-> i]
    ELSE IF s[p + 1] = IoErr
        THEN [ret |-> "ioerror", pos |-> p + 1, buf |-> buf, i |-> i]
    ELSE [ret |-> "ok", pos |-> p + 1, b |-> s[p + 1],
          buf |-> [buf EXCEPT ![i + 1] = s[p + 1]], i |-> i + 1]

(* copy_byte with the last byte of the buffer never written.               *)
copy_byte_OneLess(s, p, buf, i) ==
    IF p >= Len(s) THEN [ret |-> "end", pos |-> p, buf |-> buf, i |-> i]
    ELSE IF s[p + 1] = IoErr
        THEN [ret |-> "ioerror", pos |-> p + 1, buf |-> buf, i |-> i]
    ELSE IF i + 1 >= Len(buf)
        THEN [ret |-> "overflow", pos |-> p + 1, buf |-> buf, i |-> i]
    ELSE [ret |-> "ok", pos |-> p + 1, b |-> s[p + 1],
          buf |-> [buf EXCEPT ![i + 1] = s[p + 1]], i |-> i + 1]

(* The closure copy_byte: one item of the source into buffer[i].  i is the *)
(* 0-based write index of the source; buffer[i] is buf[i + 1] here.        *)
copy_byte(s, p, buf, i) ==
    IF p >= Len(s) THEN [ret |-> "end", pos |-> p, buf |-> buf, i |-> i]
    ELSE IF s[p + 1] = IoErr
        THEN [ret |-> "ioerror", pos |-> p + 1, buf |-> buf, i |-> i]
    ELSE IF i >= Len(buf)
        THEN [ret |-> "overflow", pos |-> p + 1, buf |-> buf, i |-> i]
    ELSE [ret |-> "ok", pos |-> p + 1, b |-> s[p + 1],
          buf |-> [buf EXCEPT ![i + 1] = s[p + 1]], i |-> i + 1]

(* Failed with the end of the source yielding the partial frame.           *)
Failed_Partial(c) ==
    CASE c.ret = "end" -> [item |-> Readout(c.buf), pos |-> c.pos]
      [] c.ret = "ioerror" -> [item |-> IOError, pos |-> c.pos]
      [] c.ret = "overflow" -> [item |-> BufferOverFlow, pos |-> c.pos]

(* Failed with an overflow handing the copied bytes back to the source.    *)
Failed_Rewind(c) ==
    CASE c.ret = "end" -> [item |-> None, pos |-> c.pos]
      [] c.ret = "ioerror" -> [item |-> IOError, pos |-> c.pos]
      [] c.ret = "overflow" -> [item |-> BufferOverFlow, pos |-> c.pos - c.i]

(* How a call ends when copy_byte did not copy: the `?` and the Err arms.  *)
Failed(c) ==
    CASE c.ret = "end" -> [item |-> None, pos |-> c.pos]
      [] c.ret = "ioerror" -> [item |-> IOError, pos |-> c.pos]
      [] c.ret = "overflow" -> [item |-> BufferOverFlow, pos |-> c.pos]

(* AddCrc stopping one checksum byte early.                                *)
RECURSIVE AddCrc_Short(_, _, _, _, _)
AddCrc_Short(s, p, buf, i, n) ==
    IF n <= 1 THEN [item |-> Readout(buf), pos |-> p]
    ELSE LET c == copy_byte(s, p, buf, i)
         IN  IF c.ret = "ok" THEN AddCrc_Short(s, c.pos, c.buf, c.i, n - 1)
             ELSE Failed(c)

(* AddCrc taking one more item of the source after the checksum.          *)
RECURSIVE AddCrc_Peek(_, _, _, _, _)
AddCrc_Peek(s, p, buf, i, n) ==
    IF n = 0
    THEN [item |-> Readout(buf), pos |-> IF p < Len(s) THEN p + 1 ELSE p]
    ELSE LET c == copy_byte(s, p, buf, i)
         IN  IF c.ret = "ok" THEN AddCrc_Peek(s, c.pos, c.buf, c.i, n - 1)
             ELSE Failed(c)

(* for _ in 0..4: the checksum bytes.                                      *)
RECURSIVE AddCrc(_, _, _, _, _)
AddCrc(s, p, buf, i, n) ==
    IF n = 0 THEN [item |-> Readout(buf), pos |-> p]
    ELSE LET c == copy_byte(s, p, buf, i)
         IN  IF c.ret = "ok" THEN AddCrc(s, c.pos, c.buf, c.i, n - 1)
             ELSE Failed(c)

(* The second loop: copy until the terminator.                             *)
RECURSIVE Copying(_, _, _, _)
Copying(s, p, buf, i) ==
    LET c == copy_byte(s, p, buf, i)
    IN  IF c.ret # "ok" THEN Failed(c)
        ELSE IF c.b = Bang THEN AddCrc(s, c.pos, c.buf, c.i, CrcLen)
        ELSE Copying(s, c.pos, c.buf, c.i)

(* One call of Reader::next on source s with p items already taken.        *)
ReaderNext(s, p) ==
    LET k == Seeking(s, p)
    IN  CASE k.found = "end" -> [item |-> None, pos |-> k.pos, start |-> 0]
          [] k.found = "error" -> [item |-> IOError, pos |-> k.pos, start |-> 0]
          [] k.found = "start" ->
                LET r == Copying(s, k.pos, [ZeroBuffer EXCEPT ![1] = Slash], 1)
                IN  [item |-> r.item, pos |-> r.pos, start |-> k.pos]

----------------------------------------------------------------------------
(* Readout::to_telegram, src/lib.rs.                                       *)

InvalidFormat == [kind |-> "InvalidFormat"]
InvalidChecksum == [kind |-> "InvalidChecksum"]
UnknownObis == [kind |-> "UnknownObis"]

(* A continuation byte of UTF-8: no character starts on it.                *)
Cont(b) == 128 <= b /\ b <= 191

(* core::str::from_utf8(..).is_ok() on the bytes of s from index k on.     *)
RECURSIVE ValidUtf8From(_, _)
ValidUtf8From(s, k) ==
    IF k > Len(s) THEN TRUE
    ELSE LET b == s[k]
             at(j) == IF k + j <= Len(s) THEN s[k + j] ELSE -1
         IN  IF b < 128 THEN ValidUtf8From(s, k + 1)
             ELSE IF 194 <= b /\ b <= 223
                 THEN Cont(at(1)) /\ ValidUtf8From(s, k + 2)
             ELSE IF b = 224
                 THEN 160 <= at(1) /\ at(1) <= 191 /\ Cont(at(2))
                      /\ ValidUtf8From(s, k + 3)
             ELSE IF (225 <= b /\ b <= 236) \/ b = 238 \/ b = 239
                 THEN Cont(at(1)) /\ Cont(at(2)) /\ ValidUtf8From(s, k + 3)
             ELSE IF b = 237
                 THEN 128 <= at(1) /\ at(1) <= 159 /\ Cont(at(2))
                      /\ ValidUtf8From(s, k + 3)
             ELSE IF b = 240
                 THEN 144 <= at(1) /\ at(1) <= 191 /\ Cont(at(2)) /\ Cont(at(3))
                      /\ ValidUtf8From(s, k + 4)
             ELSE IF 241 <= b /\ b <= 243
                 THEN Cont(at(1)) /\ Cont(at(2)) /\ Cont(at(3))
                      /\ ValidUtf8From(s, k + 4)
             ELSE IF b = 244
                 THEN 128 <= at(1) /\ at(1) <= 143 /\ Cont(at(2)) /\ Cont(at(3))
                      /\ ValidUtf8From(s, k + 4)
             ELSE FALSE

from_utf8_ok(s) == ValidUtf8From(s, 1)

(* str::is_char_boundary(i), i a 0-based byte offset.                      *)
is_char_boundary(s, i) ==
    \/ i = 0
    \/ i = Len(s)
    \/ 0 < i /\ i < Len(s) /\ ~Cont(s[i + 1])

(* str::get(a..b): the bytes at 0-based offsets a..b-1, or no slice.       *)
NoSlice == [some |-> FALSE]
Slice(v) == [some |-> TRUE, v |-> v]

get(s, a, b) ==
    IF a <= b /\ b <= Len(s) /\ is_char_boundary(s, a) /\ is_char_boundary(s, b)
    THEN Slice(SubSeq(s, a + 1, b))
    ELSE NoSlice

(* str::find of a pattern: the 0-based offset of its first occurrence, or  *)
(* -1.                                                                     *)
MatchAt(s, pat, k) ==
    /\ k + Len(pat) <= Len(s)
    /\ \A j \in 1..Len(pat) : s[k + j] = pat[j]

find(s, pat) ==
    IF \E k \in 0..Len(s) : MatchAt(s, pat, k)
    THEN CHOOSE k \in 0..Len(s) :
            MatchAt(s, pat, k) /\ \A j \in 0..(k - 1) : ~MatchAt(s, pat, j)
    ELSE -1

(* char::to_digit(radix), -1 for no digit.                                 *)
to_digit(c, radix) ==
    LET d == IF 48 <= c /\ c <= 57 THEN c - 48
             ELSE IF 97 <= c /\ c <= 122 THEN c - 97 + 10
             ELSE IF 65 <= c /\ c <= 90 THEN c - 65 + 10
             ELSE radix
    IN  IF d < radix THEN d ELSE -1

RECURSIVE Digits(_, _, _, _)
Digits(s, radix, max, acc) ==
    IF s = <<>> THEN [ok |-> TRUE, v |-> acc]
    ELSE LET d == to_digit(Head(s), radix)
         IN  IF d < 0 \/ acc * radix + d > max THEN [ok |-> FALSE]
             ELSE Digits(Tail(s), radix, max, acc * radix + d)

(* uN::from_str_radix(s, radix) for an unsigned type with maximum max: an  *)
(* optional '+', then at least one digit.                                  *)
from_str_radix(s, radix, max) ==
    IF s = <<>> THEN [ok |-> FALSE]
    ELSE IF s[1] = 43
        THEN IF Len(s) = 1 THEN [ok |-> FALSE]
             ELSE Digits(Tail(s), radix, max, 0)
    ELSE Digits(s, radix, max, 0)

(* crc16::State::<ARC>::calculate: CRC-16/ARC, reflected polynomial        *)
(* 0xA001, initial value 0.                                                *)
RECURSIVE Xor(_, _, _)
Xor(a, b, bits) ==
    IF bits = 0 THEN 0
    ELSE ((a + b) % 2) + 2 * Xor(a \div 2, b \div 2, bits - 1)

RECURSIVE CrcShift(_, _)
CrcShift(c, n) ==
    IF n = 0 THEN c
    ELSE CrcShift(IF c % 2 = 1 THEN Xor(c \div 2, Poly, 16) ELSE c \div 2, n - 1)

RECURSIVE CrcFrom(_, _, _)
CrcFrom(s, k, c) ==
    IF k > Len(s) \/ c < 0 THEN c
    ELSE CrcFrom(s, k + 1,
                 CrcShift((c \div 256) * 256 + Xor(c % 256, s[k], 8), 8))

crc16_ARC(s) == CrcFrom(s, 1, 0)

Telegram(prefix, identification, object_buffer) ==
    [kind |-> "Ok", prefix |-> prefix, identification |-> identification,
     object_buffer |-> object_buffer]

(* Split with the identification taken from header offset 4.               *)
Split_From4(buffer) ==
    LET data_start == find(buffer, BlankLine)
    IN  IF data_start < 0 THEN InvalidFormat
        ELSE LET header == SubSeq(buffer, 1, data_start)
                 data == SubSeq(buffer, data_start + 1, Len(buffer))
                 prefix == get(header, 1, 4)
                 identification == get(header, 4, Len(header))
                 object_buffer == get(data, 4, Len(data) - 3)
             IN  IF ~prefix.some THEN InvalidFormat
                 ELSE IF ~identification.some THEN InvalidFormat
                 ELSE IF ~object_buffer.some THEN InvalidFormat
                 ELSE Telegram(prefix.v, identification.v, object_buffer.v)

(* The part of to_telegram after the checksum test.                        *)
Split(buffer) ==
    LET data_start == find(buffer, BlankLine)
    IN  IF data_start < 0 THEN InvalidFormat
        ELSE LET header == SubSeq(buffer, 1, data_start)
                 data == SubSeq(buffer, data_start + 1, Len(buffer))
                 prefix == get(header, 1, 4)
                 identification == get(header, 5, Len(header))
                 object_buffer == get(data, 4, Len(data) - 3)
             IN  IF ~prefix.some THEN InvalidFormat
                 ELSE IF ~identification.some THEN InvalidFormat
                 ELSE IF ~object_buffer.some THEN InvalidFormat
                 ELSE Telegram(prefix.v, identification.v, object_buffer.v)

(* Checked with the header and body split off before the checksums are    *)
(* compared.                                                               *)
Checked_SplitFirst(text) ==
    LET data_end == find(text, <<Bang>>)
    IN  IF data_end < 0 THEN InvalidFormat
        ELSE LET buffer == SubSeq(text, 1, data_end + 1)
                 postfix == SubSeq(text, data_end + 2, Len(text))
                 digits == get(postfix, 0, CrcLen)
             IN  IF ~digits.some THEN InvalidFormat
                 ELSE LET given_checksum == from_str_radix(digits.v, 16, MaxU16)
                      IN  IF ~given_checksum.ok THEN InvalidFormat
                          ELSE IF Split(buffer) = InvalidFormat THEN InvalidFormat
                          ELSE IF given_checksum.v # crc16_ARC(buffer)
                              THEN InvalidChecksum
                          ELSE Split(buffer)

(* The part of to_telegram from the search for the terminator on.          *)
Checked(text) ==
    LET data_end == find(text, <<Bang>>)
    IN  IF data_end < 0 THEN InvalidFormat
        ELSE LET buffer == SubSeq(text, 1, data_end + 1)
                 postfix == SubSeq(text, data_end + 2, Len(text))
                 digits == get(postfix, 0, CrcLen)
             IN  IF ~digits.some THEN InvalidFormat
                 ELSE LET given_checksum == from_str_radix(digits.v, 16, MaxU16)
                      IN  IF ~given_checksum.ok THEN InvalidFormat
                          ELSE IF given_checksum.v # crc16_ARC(buffer)
                              THEN InvalidChecksum
                          ELSE Split(buffer)

to_telegram(buffer) ==
    IF ~from_utf8_ok(buffer) THEN InvalidFormat
    ELSE IF Len(buffer) < MinLen THEN InvalidFormat
    ELSE Checked(buffer)

----------------------------------------------------------------------------
(* The field decoders, src/types.rs.  A decoder returns Ok(v), an Error,   *)
(* or Panic where the source indexes a str off a character boundary or     *)
(* subtracts below zero.                                                   *)

Panic == [kind |-> "Panic"]
Ok(v) == [kind |-> "Ok", v |-> v]

OctetString_parse(body, length) ==
    LET g == get(body, 1, length + 1)
    IN  IF g.some THEN Ok(g.v) ELSE InvalidFormat

(* OctetString_parse_max that refuses a content as long as the maximum.     *)
OctetString_parse_max_Below(body, max_length) ==
    LET f == find(body, <<41>>)
    IN  IF f < 0 THEN InvalidFormat
        ELSE IF f = 0 THEN Panic
        ELSE IF f - 1 >= max_length THEN InvalidFormat
        ELSE OctetString_parse(body, f - 1)

OctetString_parse_max(body, max_length) ==
    LET f == find(body, <<41>>)
    IN  IF f < 0 THEN InvalidFormat
        ELSE IF f = 0 THEN Panic
        ELSE IF f - 1 > max_length THEN InvalidFormat
        ELSE OctetString_parse(body, f - 1)

(* parsetwo(i) of TST::parse.                                              *)
parsetwo(body, i) ==
    LET g == get(body, i, i + 2)
    IN  IF ~g.some THEN Panic
        ELSE LET r == from_str_radix(g.v, 10, MaxU8)
             IN  IF r.ok THEN Ok(r.v) ELSE InvalidFormat

(* TST_parse that takes a body of 14 bytes.                                *)
TST_parse_Min14(body) ==
    IF Len(body) < TstLen - 1 THEN InvalidFormat
    ELSE LET f == [k \in 1..6 |-> parsetwo(body, 2 * k - 1)]
             bad == { k \in 1..6 : f[k].kind # "Ok" }
             flag == get(body, 13, 14)
         IN  IF bad # {} THEN f[CHOOSE k \in bad : \A j \in bad : k <= j]
             ELSE IF ~flag.some THEN Panic
             ELSE IF flag.v \notin { <<83>>, <<87>> } THEN InvalidFormat
             ELSE Ok([year |-> f[1].v, month |-> f[2].v, day |-> f[3].v,
                      hour |-> f[4].v, minute |-> f[5].v, second |-> f[6].v,
                      dst |-> (flag.v = <<83>>)])

TST_parse(body) ==
    IF Len(body) < TstLen THEN InvalidFormat
    ELSE LET f == [k \in 1..6 |-> parsetwo(body, 2 * k - 1)]
             bad == { k \in 1..6 : f[k].kind # "Ok" }
             flag == get(body, 13, 14)
         IN  IF bad # {} THEN f[CHOOSE k \in bad : \A j \in bad : k <= j]
             ELSE IF ~flag.some THEN Panic
             ELSE IF flag.v \notin { <<83>>, <<87>> } THEN InvalidFormat
             ELSE Ok([year |-> f[1].v, month |-> f[2].v, day |-> f[3].v,
                      hour |-> f[4].v, minute |-> f[5].v, second |-> f[6].v,
                      dst |-> (flag.v = <<83>>)])

RECURSIVE Pow10(_)
Pow10(n) == IF n = 0 THEN 1 ELSE 10 * Pow10(n - 1)

(* UFixedDouble_parse that takes the fractional part with the point        *)
(* character.                                                              *)
UFixedDouble_parse_KeepPoint(body, length, point) ==
    LET g == get(body, 1, length + 2)
    IN  IF ~g.some THEN InvalidFormat
        ELSE IF point > length THEN Panic
        ELSE IF ~is_char_boundary(g.v, length - point) THEN Panic
        ELSE LET upper == from_str_radix(SubSeq(g.v, 1, length - point), 10, MaxNum)
                 low == SubSeq(g.v, length - point + 1, Len(g.v))
             IN  IF ~upper.ok THEN InvalidFormat
                 ELSE LET lower == from_str_radix(low, 10, MaxNum)
                      IN  IF ~lower.ok THEN InvalidFormat
                          ELSE Ok([buffer |-> upper.v * Pow10(point) + lower.v,
                                   point |-> point])

UFixedDouble_parse(body, length, point) ==
    LET g == get(body, 1, length + 2)
    IN  IF ~g.some THEN InvalidFormat
        ELSE IF point > length THEN Panic
        ELSE IF ~is_char_boundary(g.v, length - point) THEN Panic
        ELSE LET upper == from_str_radix(SubSeq(g.v, 1, length - point), 10, MaxNum)
                 low == SubSeq(g.v, length - point + 1, Len(g.v))
             IN  IF ~upper.ok THEN InvalidFormat
                 ELSE IF ~is_char_boundary(low, 1) THEN Panic
                 ELSE LET lower == from_str_radix(Tail(low), 10, MaxNum)
                      IN  IF ~lower.ok THEN InvalidFormat
                          ELSE Ok([buffer |-> upper.v * Pow10(point) + lower.v,
                                   point |-> point])

UFixedInteger_parse(body, length) ==
    LET g == get(body, 1, length + 1)
    IN  IF ~g.some THEN InvalidFormat
        ELSE LET number == from_str_radix(g.v, 10, MaxNum)
             IN  IF number.ok THEN Ok(number.v) ELSE InvalidFormat

----------------------------------------------------------------------------
(* The base dispatcher dsmr4::OBIS::parse, src/obis/dsmr4.rs, and          *)
(* Parseable::parse_line, src/obis/mod.rs.                                 *)

(* The exact-match arms: reference, variant, its Tariff or Line, decoder.  *)
Dsmr4Table == {
    [ref |-> <<49, 45, 51, 58, 48, 46, 50, 46, 56>>, tag |-> "Version", idx |-> "-", kind |-> "octets", len |-> 2, point |-> 0],   \* "1-3:0.2.8"
    [ref |-> <<48, 45, 48, 58, 49, 46, 48, 46, 48>>, tag |-> "DateTime", idx |-> "-", kind |-> "tst", len |-> 0, point |-> 0],   \* "0-0:1.0.0"
    [ref |-> <<48, 45, 48, 58, 57, 54, 46, 49, 46, 49>>, tag |-> "EquipmentIdentifier", idx |-> "-", kind |-> "octets_max", len |-> 96, point |-> 0],   \* "0-0:96.1.1"
    [ref |-> <<49, 45, 48, 58, 49, 46, 56, 46, 49>>, tag |-> "MeterReadingTo", idx |-> "Tariff1", kind |-> "double", len |-> 9, point |-> 3],   \* "1-0:1.8.1"
    [ref |-> <<49, 45, 48, 58, 49, 46, 56, 46, 50>>, tag |-> "MeterReadingTo", idx |-> "Tariff2", kind |-> "double", len |-> 9, point |-> 3],   \* "1-0:1.8.2"
    [ref |-> <<49, 45, 48, 58, 50, 46, 56, 46, 49>>, tag |-> "MeterReadingBy", idx |-> "Tariff1", kind |-> "double", len |-> 9, point |-> 3],   \* "1-0:2.8.1"
    [ref |-> <<49, 45, 48, 58, 50, 46, 56, 46, 50>>, tag |-> "MeterReadingBy", idx |-> "Tariff2", kind |-> "double", len |-> 9, point |-> 3],   \* "1-0:2.8.2"
    [ref |-> <<48, 45, 48, 58, 57, 54, 46, 49, 52, 46, 48>>, tag |-> "TariffIndicator", idx |-> "-", kind |-> "octets", len |-> 4, point |-> 0],   \* "0-0:96.14.0"
    [ref |-> <<49, 45, 48, 58, 49, 46, 55, 46, 48>>, tag |-> "PowerDelivered", idx |-> "-", kind |-> "double", len |-> 5, point |-> 3],   \* "1-0:1.7.0"
    [ref |-> <<49, 45, 48, 58, 50, 46, 55, 46, 48>>, tag |-> "PowerReceived", idx |-> "-", kind |-> "double", len |-> 5, point |-> 3],   \* "1-0:2.7.0"
    [ref |-> <<48, 45, 48, 58, 57, 54, 46, 55, 46, 50, 49>>, tag |-> "PowerFailures", idx |-> "-", kind |-> "integer", len |-> 5, point |-> 0],   \* "0-0:96.7.21"
    [ref |-> <<48, 45, 48, 58, 57, 54, 46, 55, 46, 57>>, tag |-> "LongPowerFailures", idx |-> "-", kind |-> "integer", len |-> 5, point |-> 0],   \* "0-0:96.7.9"
    [ref |-> <<49, 45, 48, 58, 57, 57, 46, 57, 55, 46, 48>>, tag |-> "PowerFailureEventLog", idx |-> "-", kind |-> "unit", len |-> 0, point |-> 0],   \* "1-0:99.97.0"
    [ref |-> <<49, 45, 48, 58, 51, 50, 46, 51, 50, 46, 48>>, tag |-> "VoltageSags", idx |-> "Line1", kind |-> "integer", len |-> 5, point |-> 0],   \* "1-0:32.32.0"
    [ref |-> <<49, 45, 48, 58, 53, 50, 46, 51, 50, 46, 48>>, tag |-> "VoltageSags", idx |-> "Line2", kind |-> "integer", len |-> 5, point |-> 0],   \* "1-0:52.32.0"
    [ref |-> <<49, 45, 48, 58, 55, 50, 46, 51, 50, 46, 48>>, tag |-> "VoltageSags", idx |-> "Line3", kind |-> "integer", len |-> 5, point |-> 0],   \* "1-0:72.32.0"
    [ref |-> <<49, 45, 48, 58, 51, 50, 46, 51, 54, 46, 48>>, tag |-> "VoltageSwells", idx |-> "Line1", kind |-> "integer", len |-> 5, point |-> 0],   \* "1-0:32.36.0"
    [ref |-> <<49, 45, 48, 58, 53, 50, 46, 51, 54, 46, 48>>, tag |-> "VoltageSwells", idx |-> "Line2", kind |-> "integer", len |-> 5, point |-> 0],   \* "1-0:52.36.0"
    [ref |-> <<49, 45, 48, 58, 55, 50, 46, 51, 54, 46, 48>>, tag |-> "VoltageSwells", idx |-> "Line3", kind |-> "integer", len |-> 5, point |-> 0],   \* "1-0:72.36.0"
    [ref |-> <<48, 45, 48, 58, 57, 54, 46, 49, 51, 46, 49>>, tag |-> "TextMessageCode", idx |-> "-", kind |-> "unit", len |-> 0, point |-> 0],   \* "0-0:96.13.1"
    [ref |-> <<48, 45, 48, 58, 57, 54, 46, 49, 51, 46, 48>>, tag |-> "TextMessage", idx |-> "-", kind |-> "unit", len |-> 0, point |-> 0],   \* "0-0:96.13.0"
    [ref |-> <<49, 45, 48, 58, 51, 49, 46, 55, 46, 48>>, tag |-> "InstantaneousCurrent", idx |-> "Line1", kind |-> "integer", len |-> 3, point |-> 0],   \* "1-0:31.7.0"
    [ref |-> <<49, 45, 48, 58, 53, 49, 46, 55, 46, 48>>, tag |-> "InstantaneousCurrent", idx |-> "Line2", kind |-> "integer", len |-> 3, point |-> 0],   \* "1-0:51.7.0"
    [ref |-> <<49, 45, 48, 58, 55, 49, 46, 55, 46, 48>>, tag |-> "InstantaneousCurrent", idx |-> "Line3", kind |-> "integer", len |-> 3, point |-> 0],   \* "1-0:71.7.0"
    [ref |-> <<49, 45, 48, 58, 50, 49, 46, 55, 46, 48>>, tag |-> "InstantaneousActivePowerPlus", idx |-> "Line1", kind |-> "double", len |-> 5, point |-> 3],   \* "1-0:21.7.0"
    [ref |-> <<49, 45, 48, 58, 52, 49, 46, 55, 46, 48>>, tag |-> "InstantaneousActivePowerPlus", idx |-> "Line2", kind |-> "double", len |-> 5, point |-> 3],   \* "1-0:41.7.0"
    [ref |-> <<49, 45, 48, 58, 54, 49, 46, 55, 46, 48>>, tag |-> "InstantaneousActivePowerPlus", idx |-> "Line3", kind |-> "double", len |-> 5, point |-> 3],   \* "1-0:61.7.0"
    [ref |-> <<49, 45, 48, 58, 50, 50, 46, 55, 46, 48>>, tag |-> "InstantaneousActivePowerNeg", idx |-> "Line1", kind |-> "double", len |-> 5, point |-> 3],   \* "1-0:22.7.0"
    [ref |-> <<49, 45, 48, 58, 52, 50, 46, 55, 46, 48>>, tag |-> "InstantaneousActivePowerNeg", idx |-> "Line2", kind |-> "double", len |-> 5, point |-> 3],   \* "1-0:42.7.0"
    [ref |-> <<49, 45, 48, 58, 54, 50, 46, 55, 46, 48>>, tag |-> "InstantaneousActivePowerNeg", idx |-> "Line3", kind |-> "double", len |-> 5, point |-> 3]    \* "1-0:62.7.0"
}

Object(tag, idx, v) == [kind |-> "Ok", tag |-> tag, idx |-> idx, v |-> v]

Decode(e, body) ==
    LET r == CASE e.kind = "unit" -> Ok(<<>>)
               [] e.kind = "octets" -> OctetString_parse(body, e.len)
               [] e.kind = "octets_max" -> OctetString_parse_max(body, e.len)
               [] e.kind = "tst" -> TST_parse(body)
               [] e.kind = "double" -> UFixedDouble_parse(body, e.len, e.point)
               [] e.kind = "integer" -> UFixedInteger_parse(body, e.len)
    IN  IF r.kind = "Ok" THEN Object(e.tag, e.idx, r.v) ELSE r

(* `period as u8`: the low eight bits of a usize.                          *)
as_u8(n) == n % 256

(* SlaveMeterReading with the point 3 whatever the place of the '.'.       *)
SlaveMeterReading_Point3(channel, body) ==
    LET end == find(Tail(body), <<40>>)
    IN  IF end < 0 THEN InvalidFormat
        ELSE LET time == SubSeq(body, 1, end + 1)
                 measurement == SubSeq(body, end + 2, Len(body))
                 period == find(measurement, <<46>>)
             IN  IF period < 0 THEN InvalidFormat
                 ELSE LET t == TST_parse(time)
                      IN  IF t.kind # "Ok" THEN t
                          ELSE IF as_u8(period) > 9 THEN Panic
                          ELSE LET m == UFixedDouble_parse(measurement, 8, 3)
                               IN  IF m.kind # "Ok" THEN m
                                   ELSE Object("SlaveMeterReading", channel,
                                               <<t.v, m.v>>)

(* The arm "24.2.1": a timestamp group, then a decimal group.              *)
SlaveMeterReading(channel, body) ==
    LET end == find(Tail(body), <<40>>)
    IN  IF end < 0 THEN InvalidFormat
        ELSE LET time == SubSeq(body, 1, end + 1)
                 measurement == SubSeq(body, end + 2, Len(body))
                 period == find(measurement, <<46>>)
             IN  IF period < 0 THEN InvalidFormat
                 ELSE LET t == TST_parse(time)
                      IN  IF t.kind # "Ok" THEN t
                          ELSE IF as_u8(period) > 9 THEN Panic
                          ELSE LET m == UFixedDouble_parse(measurement, 8, 9 - as_u8(period))
                               IN  IF m.kind # "Ok" THEN m
                                   ELSE Object("SlaveMeterReading", channel,
                                               <<t.v, m.v>>)

Slaves == <<"Slave1", "Slave2", "Slave3", "Slave4">>

(* The `_` arm: a reference "0-n:..." of a slave channel n.                *)
Dsmr4Channel(reference, body) ==
    IF Len(reference) # 10 THEN UnknownObis
    ELSE LET head == get(reference, 0, 2)
         IN  IF ~head.some THEN UnknownObis
             ELSE IF head.v # <<48, 45>> THEN UnknownObis
             ELSE LET digit == get(reference, 2, 3)
                  IN  IF ~digit.some THEN Panic
                      ELSE LET n == from_str_radix(digit.v, 10, MaxU8)
                           IN  IF ~n.ok THEN UnknownObis
                               ELSE IF n.v \notin 1..4 THEN UnknownObis
                               ELSE IF ~is_char_boundary(reference, 4) THEN Panic
                               ELSE LET channel == Slaves[n.v]
                                        subreference == SubSeq(reference, 5, 10)
                                    IN  CASE subreference = <<50, 52, 46, 49, 46, 48>> ->
                                               LET r == UFixedInteger_parse(body, 3)
                                               IN  IF r.kind # "Ok" THEN r
                                                   ELSE Object("SlaveDeviceType", channel, r.v)
                                          [] subreference = <<57, 54, 46, 49, 46, 48>> ->
                                               LET r == OctetString_parse_max(body, 96)
                                               IN  IF r.kind # "Ok" THEN r
                                                   ELSE Object("SlaveEquipmentIdentifier", channel, r.v)
                                          [] subreference = <<50, 52, 46, 50, 46, 49>> ->
                                               SlaveMeterReading(channel, body)
                                          [] OTHER -> UnknownObis

dsmr4_parse(reference, body) ==
    IF \E e \in Dsmr4Table : e.ref = reference
    THEN Decode(CHOOSE e \in Dsmr4Table : e.ref = reference, body)
    ELSE Dsmr4Channel(reference, body)

----------------------------------------------------------------------------
(* The extended dispatchers: dsmr5::OBIS::parse, src/obis/dsmr5.rs, and    *)
(* e_mucs::OBIS::parse, src/obis/e_mucs.rs.                                *)

DSMR4(o) == Object("DSMR4", "-", o)
DSMR5(o) == Object("DSMR5", "-", o)

(* Result::map of a wrapping variant.                                      *)
map_DSMR4(r) == IF r.kind = "Ok" THEN DSMR4(r) ELSE r
map_DSMR5(r) == IF r.kind = "Ok" THEN DSMR5(r) ELSE r

Dsmr5Table == {
    [ref |-> <<49, 45, 48, 58, 51, 50, 46, 55, 46, 48>>, tag |-> "InstantaneousVoltage", idx |-> "Line1", kind |-> "double", len |-> 4, point |-> 1],   \* "1-0:32.7.0"
    [ref |-> <<49, 45, 48, 58, 53, 50, 46, 55, 46, 48>>, tag |-> "InstantaneousVoltage", idx |-> "Line2", kind |-> "double", len |-> 4, point |-> 1],   \* "1-0:52.7.0"
    [ref |-> <<49, 45, 48, 58, 55, 50, 46, 55, 46, 48>>, tag |-> "InstantaneousVoltage", idx |-> "Line3", kind |-> "double", len |-> 4, point |-> 1]    \* "1-0:72.7.0"
}

dsmr5_parse_specific(reference, body) ==
    IF \E e \in Dsmr5Table : e.ref = reference
    THEN Decode(CHOOSE e \in Dsmr5Table : e.ref = reference, body)
    ELSE UnknownObis

dsmr5_parse(reference, body) ==
    LET own == dsmr5_parse_specific(reference, body)
    IN  IF own = UnknownObis THEN map_DSMR4(dsmr4_parse(reference, body))
        ELSE own

(* The arms of e_mucs parse_specific that call one decoder and build a     *)
(* variant of e_mucs::OBIS.                                                *)
EMucsTable == {
    [ref |-> <<49, 45, 48, 58, 51, 49, 46, 55, 46, 48>>, tag |-> "InstantaneousCurrent", idx |-> "Line1", kind |-> "double", len |-> 5, point |-> 2],   \* "1-0:31.7.0"
    [ref |-> <<49, 45, 48, 58, 53, 49, 46, 55, 46, 48>>, tag |-> "InstantaneousCurrent", idx |-> "Line2", kind |-> "double", len |-> 5, point |-> 2],   \* "1-0:51.7.0"
    [ref |-> <<49, 45, 48, 58, 55, 49, 46, 55, 46, 48>>, tag |-> "InstantaneousCurrent", idx |-> "Line3", kind |-> "double", len |-> 5, point |-> 2],   \* "1-0:71.7.0"
    [ref |-> <<48, 45, 48, 58, 57, 54, 46, 51, 46, 49, 48>>, tag |-> "BreakerState", idx |-> "-", kind |-> "integer", len |-> 1, point |-> 0],   \* "0-0:96.3.10"
    [ref |-> <<48, 45, 48, 58, 49, 55, 46, 48, 46, 48>>, tag |-> "LimiterThreshold", idx |-> "-", kind |-> "double", len |-> 4, point |-> 1],   \* "0-0:17.0.0"
    [ref |-> <<49, 45, 48, 58, 51, 49, 46, 52, 46, 48>>, tag |-> "FuseSupervisionThreshold", idx |-> "-", kind |-> "integer", len |-> 3, point |-> 0],   \* "1-0:31.4.0"
    [ref |-> <<49, 45, 48, 58, 49, 46, 52, 46, 48>>, tag |-> "CurrentAverageDemand", idx |-> "-", kind |-> "double", len |-> 5, point |-> 3],   \* "1-0:1.4.0"
    [ref |-> <<48, 45, 48, 58, 57, 56, 46, 49, 46, 48>>, tag |-> "MaximumDemandYear", idx |-> "-", kind |-> "unit", len |-> 0, point |-> 0]    \* "0-0:98.1.0"
}

(* The arm "0-0:96.1.4".                                                   *)
EMucsVersion(body) ==
    LET r == OctetString_parse(body, 5)
    IN  IF r.kind # "Ok" THEN r
        ELSE DSMR5(DSMR4(Object("Version", "-", r.v)))

(* The arm "1-0:1.6.0": a timestamp group, then a decimal group.           *)
MaximumDemandMonth(body) ==
    LET end == find(Tail(body), <<40>>)
    IN  IF end < 0 THEN InvalidFormat
        ELSE LET time == SubSeq(body, 1, end + 1)
                 measurement == SubSeq(body, end + 2, Len(body))
                 t == TST_parse(time)
             IN  IF t.kind # "Ok" THEN t
                 ELSE LET m == UFixedDouble_parse(measurement, 5, 3)
                      IN  IF m.kind # "Ok" THEN m
                          ELSE Object("MaximumDemandMonth", "-", <<t.v, m.v>>)

(* The arm "24.2.3": a timestamp group, then a decimal group.              *)
SlaveMeterReadingNonCorrected(channel, body) ==
    LET end == find(Tail(body), <<40>>)
    IN  IF end < 0 THEN InvalidFormat
        ELSE LET time == SubSeq(body, 1, end + 1)
                 measurement == SubSeq(body, end + 2, Len(body))
                 period == find(measurement, <<46>>)
             IN  IF period < 0 THEN InvalidFormat
                 ELSE LET t == TST_parse(time)
                      IN  IF t.kind # "Ok" THEN t
                          ELSE IF as_u8(period) > 9 THEN Panic
                          ELSE LET m == UFixedDouble_parse(measurement, 8, 9 - as_u8(period))
                               IN  IF m.kind # "Ok" THEN m
                                   ELSE Object("SlaveMeterReadingNonCorrected",
                                               channel, <<t.v, m.v>>)

(* EMucsChannel answering a channel digit outside 1..4 with InvalidFormat. *)
EMucsChannel_Strict(reference, body) ==
    IF Len(reference) # 10 THEN UnknownObis
    ELSE LET head == get(reference, 0, 2)
         IN  IF ~head.some THEN UnknownObis
             ELSE IF head.v # <<48, 45>> THEN UnknownObis
             ELSE LET digit == get(reference, 2, 3)
                  IN  IF ~digit.some THEN Panic
                      ELSE LET n == from_str_radix(digit.v, 10, MaxU8)
                           IN  IF ~n.ok THEN UnknownObis
                               ELSE IF n.v \notin 1..4 THEN InvalidFormat
                               ELSE IF ~is_char_boundary(reference, 4) THEN Panic
                               ELSE LET channel == Slaves[n.v]
                                        subreference == SubSeq(reference, 5, 10)
                                    IN  CASE subreference = <<50, 52, 46, 52, 46, 48>> ->
                                               LET r == UFixedInteger_parse(body, 1)
                                               IN  IF r.kind # "Ok" THEN r
                                                   ELSE Object("SlaveValveState", channel, r.v)
                                          [] subreference = <<50, 52, 46, 50, 46, 51>> ->
                                               SlaveMeterReadingNonCorrected(channel, body)
                                          [] subreference = <<57, 54, 46, 49, 46, 49>> ->
                                               LET r == OctetString_parse_max(body, 96)
                                               IN  IF r.kind # "Ok" THEN r
                                                   ELSE DSMR5(DSMR4(Object("SlaveEquipmentIdentifier", channel, r.v)))
                                          [] OTHER -> UnknownObis

(* The `_` arm of e_mucs parse_specific.                                   *)
EMucsChannel(reference, body) ==
    IF Len(reference) # 10 THEN UnknownObis
    ELSE LET head == get(reference, 0, 2)
         IN  IF ~head.some THEN UnknownObis
             ELSE IF head.v # <<48, 45>> THEN UnknownObis
             ELSE LET digit == get(reference, 2, 3)
                  IN  IF ~digit.some THEN Panic
                      ELSE LET n == from_str_radix(digit.v, 10, MaxU8)
                           IN  IF ~n.ok THEN UnknownObis
                               ELSE IF n.v \notin 1..4 THEN UnknownObis
                               ELSE IF ~is_char_boundary(reference, 4) THEN Panic
                               ELSE LET channel == Slaves[n.v]
                                        subreference == SubSeq(reference, 5, 10)
                                    IN  CASE subreference = <<50, 52, 46, 52, 46, 48>> ->
                                               LET r == UFixedInteger_parse(body, 1)
                                               IN  IF r.kind # "Ok" THEN r
                                                   ELSE Object("SlaveValveState", channel, r.v)
                                          [] subreference = <<50, 52, 46, 50, 46, 51>> ->
                                               SlaveMeterReadingNonCorrected(channel, body)
                                          [] subreference = <<57, 54, 46, 49, 46, 49>> ->
                                               LET r == OctetString_parse_max(body, 96)
                                               IN  IF r.kind # "Ok" THEN r
                                                   ELSE DSMR5(DSMR4(Object("SlaveEquipmentIdentifier", channel, r.v)))
                                          [] OTHER -> UnknownObis

e_mucs_parse_specific(reference, body) ==
    IF reference = <<48, 45, 48, 58, 57, 54, 46, 49, 46, 52>> THEN EMucsVersion(body)
    ELSE IF reference = <<49, 45, 48, 58, 49, 46, 54, 46, 48>> THEN MaximumDemandMonth(body)
    ELSE IF \E e \in EMucsTable : e.ref = reference
    THEN Decode(CHOOSE e \in EMucsTable : e.ref = reference, body)
    ELSE EMucsChannel(reference, body)

(* e_mucs_parse forwarding to the older layer on any error of its own.    *)
e_mucs_parse_AnyErr(reference, body) ==
    LET own == e_mucs_parse_specific(reference, body)
    IN  IF own.kind # "Ok" THEN map_DSMR5(dsmr5_parse(reference, body))
        ELSE own

e_mucs_parse(reference, body) ==
    LET own == e_mucs_parse_specific(reference, body)
    IN  IF own = UnknownObis THEN map_DSMR5(dsmr5_parse(reference, body))
        ELSE own

(* Parseable::parse_line of a layer: "dsmr4", "dsmr5" or "e_mucs".         *)
Layers == { "dsmr4", "dsmr5", "e_mucs" }

layer_parse(layer, reference, body) ==
    CASE layer = "dsmr4" -> dsmr4_parse(reference, body)
      [] layer = "dsmr5" -> dsmr5_parse(reference, body)
      [] layer = "e_mucs" -> e_mucs_parse(reference, body)

(* Parseable::parse_line, src/obis/mod.rs, of the dispatcher of a layer.    *)
parse_line_of(layer, line) ==
    LET reference_end == find(line, <<40>>)
    IN  IF reference_end < 0 THEN InvalidFormat
        ELSE layer_parse(layer, SubSeq(line, 1, reference_end),
                         SubSeq(line, reference_end + 1, Len(line)))

(* dsmr4::OBIS::parse_line.                                                *)
parse_line(line) == parse_line_of("dsmr4", line)

----------------------------------------------------------------------------
(* OBIS::parse of src/lib.rs, the line decoder Telegram::objects maps over *)
(* the lines. Its field decoders are the ones above under other names.     *)

FixedFloat_parse(body, length, point) == UFixedDouble_parse(body, length, point)

FixedInteger_parse(body, length) == UFixedInteger_parse(body, length)

(* The exact-match arms: reference, variant, decoder.                      *)
ObisTable == {
    [ref |-> <<49, 45, 51, 58, 48, 46, 50, 46, 56>>, tag |-> "Version", idx |-> "-", kind |-> "octets", len |-> 2, point |-> 0],   \* "1-3:0.2.8"
    [ref |-> <<48, 45, 48, 58, 49, 46, 48, 46, 48>>, tag |-> "DateTime", idx |-> "-", kind |-> "tst", len |-> 0, point |-> 0],   \* "0-0:1.0.0"
    [ref |-> <<48, 45, 48, 58, 57, 54, 46, 49, 46, 49>>, tag |-> "EquipmentIdentifier", idx |-> "-", kind |-> "octets_max", len |-> 96, point |-> 0],   \* "0-0:96.1.1"
    [ref |-> <<49, 45, 48, 58, 49, 46, 56, 46, 49>>, tag |-> "MeterReadingToTariff1", idx |-> "-", kind |-> "double", len |-> 9, point |-> 3],   \* "1-0:1.8.1"
    [ref |-> <<49, 45, 48, 58, 49, 46, 56, 46, 50>>, tag |-> "MeterReadingToTariff2", idx |-> "-", kind |-> "double", len |-> 9, point |-> 3],   \* "1-0:1.8.2"
    [ref |-> <<49, 45, 48, 58, 50, 46, 56, 46, 49>>, tag |-> "MeterReadingByTariff1", idx |-> "-", kind |-> "double", len |-> 9, point |-> 3],   \* "1-0:2.8.1"
    [ref |-> <<49, 45, 48, 58, 50, 46, 56, 46, 50>>, tag |-> "MeterReadingByTariff2", idx |-> "-", kind |-> "double", len |-> 9, point |-> 3],   \* "1-0:2.8.2"
    [ref |-> <<48, 45, 48, 58, 57, 54, 46, 49, 52, 46, 48>>, tag |-> "TariffIndicator", idx |-> "-", kind |-> "octets", len |-> 4, point |-> 0],   \* "0-0:96.14.0"
    [ref |-> <<49, 45, 48, 58, 49, 46, 55, 46, 48>>, tag |-> "PowerDelivered", idx |-> "-", kind |-> "double", len |-> 5, point |-> 3],   \* "1-0:1.7.0"
    [ref |-> <<49, 45, 48, 58, 50, 46, 55, 46, 48>>, tag |-> "PowerReceived", idx |-> "-", kind |-> "double", len |-> 5, point |-> 3],   \* "1-0:2.7.0"
    [ref |-> <<48, 45, 48, 58, 57, 54, 46, 55, 46, 50, 49>>, tag |-> "PowerFailures", idx |-> "-", kind |-> "integer", len |-> 5, point |-> 0],   \* "0-0:96.7.21"
    [ref |-> <<48, 45, 48, 58, 57, 54, 46, 55, 46, 57>>, tag |-> "LongPowerFailures", idx |-> "-", kind |-> "integer", len |-> 5, point |-> 0],   \* "0-0:96.7.9"
    [ref |-> <<49, 45, 48, 58, 57, 57, 46, 57, 55, 46, 48>>, tag |-> "PowerFailureEventLog", idx |-> "-", kind |-> "unit", len |-> 0, point |-> 0],   \* "1-0:99.97.0"
    [ref |-> <<49, 45, 48, 58, 51, 50, 46, 51, 50, 46, 48>>, tag |-> "VoltageSagsL1", idx |-> "-", kind |-> "integer", len |-> 5, point |-> 0],   \* "1-0:32.32.0"
    [ref |-> <<49, 45, 48, 58, 53, 50, 46, 51, 50, 46, 48>>, tag |-> "VoltageSagsL2", idx |-> "-", kind |-> "integer", len |-> 5, point |-> 0],   \* "1-0:52.32.0"
    [ref |-> <<49, 45, 48, 58, 55, 50, 46, 51, 50, 46, 48>>, tag |-> "VoltageSagsL3", idx |-> "-", kind |-> "integer", len |-> 5, point |-> 0],   \* "1-0:72.32.0"
    [ref |-> <<49, 45, 48, 58, 51, 50, 46, 51, 54, 46, 48>>, tag |-> "VoltageSwellsL1", idx |-> "-", kind |-> "integer", len |-> 5, point |-> 0],   \* "1-0:32.36.0"
    [ref |-> <<49, 45, 48, 58, 53, 50, 46, 51, 54, 46, 48>>, tag |-> "VoltageSwellsL2", idx |-> "-", kind |-> "integer", len |-> 5, point |-> 0],   \* "1-0:52.36.0"
    [ref |-> <<49, 45, 48, 58, 55, 50, 46, 51, 54, 46, 48>>, tag |-> "VoltageSwellsL3", idx |-> "-", kind |-> "integer", len |-> 5, point |-> 0],   \* "1-0:72.36.0"
    [ref |-> <<48, 45, 48, 58, 57, 54, 46, 49, 51, 46, 48>>, tag |-> "TextMessage", idx |-> "-", kind |-> "unit", len |-> 0, point |-> 0],   \* "0-0:96.13.0"
    [ref |-> <<49, 45, 48, 58, 51, 50, 46, 55, 46, 48>>, tag |-> "InstantaneousVoltageL1", idx |-> "-", kind |-> "double", len |-> 4, point |-> 1],   \* "1-0:32.7.0"
    [ref |-> <<49, 45, 48, 58, 53, 50, 46, 55, 46, 48>>, tag |-> "InstantaneousVoltageL2", idx |-> "-", kind |-> "double", len |-> 4, point |-> 1],   \* "1-0:52.7.0"
    [ref |-> <<49, 45, 48, 58, 55, 50, 46, 55, 46, 48>>, tag |-> "InstantaneousVoltageL3", idx |-> "-", kind |-> "double", len |-> 4, point |-> 1],   \* "1-0:72.7.0"
    [ref |-> <<49, 45, 48, 58, 51, 49, 46, 55, 46, 48>>, tag |-> "InstantaneousCurrentL1", idx |-> "-", kind |-> "integer", len |-> 3, point |-> 0],   \* "1-0:31.7.0"
    [ref |-> <<49, 45, 48, 58, 53, 49, 46, 55, 46, 48>>, tag |-> "InstantaneousCurrentL2", idx |-> "-", kind |-> "integer", len |-> 3, point |-> 0],   \* "1-0:51.7.0"
    [ref |-> <<49, 45, 48, 58, 55, 49, 46, 55, 46, 48>>, tag |-> "InstantaneousCurrentL3", idx |-> "-", kind |-> "integer", len |-> 3, point |-> 0],   \* "1-0:71.7.0"
    [ref |-> <<49, 45, 48, 58, 50, 49, 46, 55, 46, 48>>, tag |-> "InstantaneousActivePowerPlusL1", idx |-> "-", kind |-> "double", len |-> 5, point |-> 3],   \* "1-0:21.7.0"
    [ref |-> <<49, 45, 48, 58, 52, 49, 46, 55, 46, 48>>, tag |-> "InstantaneousActivePowerPlusL2", idx |-> "-", kind |-> "double", len |-> 5, point |-> 3],   \* "1-0:41.7.0"
    [ref |-> <<49, 45, 48, 58, 54, 49, 46, 55, 46, 48>>, tag |-> "InstantaneousActivePowerPlusL3", idx |-> "-", kind |-> "double", len |-> 5, point |-> 3],   \* "1-0:61.7.0"
    [ref |-> <<49, 45, 48, 58, 50, 50, 46, 55, 46, 48>>, tag |-> "InstantaneousActivePowerNegL1", idx |-> "-", kind |-> "double", len |-> 5, point |-> 3],   \* "1-0:22.7.0"
    [ref |-> <<49, 45, 48, 58, 52, 50, 46, 55, 46, 48>>, tag |-> "InstantaneousActivePowerNegL2", idx |-> "-", kind |-> "double", len |-> 5, point |-> 3],   \* "1-0:42.7.0"
    [ref |-> <<49, 45, 48, 58, 54, 50, 46, 55, 46, 48>>, tag |-> "InstantaneousActivePowerNegL3", idx |-> "-", kind |-> "double", len |-> 5, point |-> 3]    \* "1-0:62.7.0"
}

(* The `_` arm: a reference "0-n:..." of a slave channel n.                *)
ObisChannel(reference, body) ==
    IF Len(reference) # 10 THEN UnknownObis
    ELSE LET head == get(reference, 0, 2)
         IN  IF ~head.some THEN InvalidFormat
             ELSE IF head.v # <<48, 45>> THEN UnknownObis
             ELSE LET digit == get(reference, 2, 3)
                  IN  IF ~digit.some THEN Panic
                      ELSE LET channel == from_str_radix(digit.v, 10, MaxU8)
                           IN  IF ~channel.ok THEN InvalidFormat
                               ELSE IF ~is_char_boundary(reference, 4) THEN Panic
                               ELSE LET subreference == SubSeq(reference, 5, 10)
                                    IN  CASE subreference = <<50, 52, 46, 49, 46, 48>> ->
                                               LET r == FixedInteger_parse(body, 3)
                                               IN  IF r.kind # "Ok" THEN r
                                                   ELSE Object("SlaveDeviceType", channel.v, r.v)
                                          [] subreference = <<57, 54, 46, 49, 46, 48>> ->
                                               LET r == OctetString_parse_max(body, 96)
                                               IN  IF r.kind # "Ok" THEN r
                                                   ELSE Object("SlaveEquipmentIdentifier", channel.v, r.v)
                                          [] subreference = <<50, 52, 46, 50, 46, 49>> ->
                                               SlaveMeterReading(channel.v, body)
                                          [] OTHER -> UnknownObis

OBIS_parse(line) ==
    LET reference_end == find(line, <<40>>)
    IN  IF reference_end < 0 THEN InvalidFormat
        ELSE LET reference == SubSeq(line, 1, reference_end)
                 body == SubSeq(line, reference_end + 1, Len(line))
             IN  IF \E e \in ObisTable : e.ref = reference
                 THEN Decode(CHOOSE e \in ObisTable : e.ref = reference, body)
                 ELSE ObisChannel(reference, body)

----------------------------------------------------------------------------
(* Telegram::objects, src/lib.rs: object_buffer.lines().map(OBIS::parse).  *)

(* Lines::next on the text not yet iterated: the text up to the first      *)
(* "\n", without it and without a "\r" before it.                          *)
lines_next(text) ==
    IF text = <<>> THEN [some |-> FALSE]
    ELSE LET k == find(text, <<10>>)
         IN  IF k < 0 THEN [some |-> TRUE, line |-> text, rest |-> <<>>]
             ELSE [some |-> TRUE,
                   line |-> IF k > 0 /\ text[k] = 13 THEN SubSeq(text, 1, k - 1)
                            ELSE SubSeq(text, 1, k),
                   rest |-> SubSeq(text, k + 2, Len(text))]

(* objects_step ending the iteration at the first line that fails.        *)
objects_step_Fused(text) ==
    LET l == lines_next(text)
    IN  IF ~l.some THEN [some |-> FALSE]
        ELSE LET item == OBIS_parse(l.line)
             IN  [some |-> TRUE, item |-> item,
                  rest |-> IF item.kind = "Ok" THEN l.rest ELSE <<>>]

(* Map::next: the next line, decoded.                                      *)
objects_step(text) ==
    LET l == lines_next(text)
    IN  IF ~l.some THEN [some |-> FALSE]
        ELSE [some |-> TRUE, item |-> OBIS_parse(l.line), rest |-> l.rest]

----------------------------------------------------------------------------
(* The byte sources the Reader is run on.                                  *)

(* A source is a concatenation of pieces: a start marker, a terminator,    *)
(* the byte 'a', the four bytes "0123", or an item on which the source     *)
(* fails.                                                                  *)
BytePieces == { <<Slash>>, <<Bang>>, <<97>>, <<48, 49, 50, 51>> }

ErrPieces == BytePieces \cup { <<IoErr>> }

RECURSIVE Flatten(_)
Flatten(ps) == IF ps = <<>> THEN <<>> ELSE Head(ps) \o Flatten(Tail(ps))

Concats(pieces, n) ==
    { Flatten(ps) : ps \in UNION { [1..m -> pieces] : m \in 0..n } }

Streams == Concats(BytePieces, MaxPieces) \cup Concats(ErrPieces, MaxErrPieces)

Pending == [kind |-> "Pending"]
Idle == [on |-> FALSE]

NoDispatch ==
    /\ objLine = <<>>
    /\ parsed = <<>>

NoCall ==
    /\ call = <<>>
    /\ ret = Pending

NoFold ==
    /\ fold = <<>>
    /\ state = <<>>
    /\ applied = 0
    /\ converted = Pending

NoTelegram ==
    /\ input = <<>>
    /\ readout = <<>>
    /\ telegram = Pending
    /\ iter = Idle
    /\ yielded = <<>>

Init ==
    /\ stream \in Streams
    /\ pos = 0
    /\ results = <<>>
    /\ spans = <<>>
    /\ NoTelegram
    /\ NoDispatch
    /\ NoCall
    /\ NoFold

(* The caller calls Reader::next until it has returned None.               *)
Exhausted == IF results = <<>> THEN FALSE ELSE results[Len(results)] = None

Reader_next ==
    /\ ~Exhausted
    /\ LET r == ReaderNext(stream, pos)
       IN  /\ pos' = r.pos
           /\ results' = Append(results, r.item)
           /\ spans' = Append(spans,
                  [before |-> pos, start |-> r.start, after |-> r.pos])
    /\ UNCHANGED <<fold, state, applied, converted,
                 objLine, parsed, call, ret, stream, input, readout,
                 telegram, iter, yielded>>

Next == Reader_next

Spec == Init /\ [][Next]_vars

----------------------------------------------------------------------------
(* The Readouts the frame extractor is run on: a header, a separator, body *)
(* lines each ended by "\r\n", the terminator and a checksum trailer,      *)
(* zero-filled to the capacity of the buffer.                              *)

IskHeader == <<47, 73, 83, 75, 53, 92, 50, 77, 53, 53, 48, 69, 45, 49, 48, 49, 50>>     \* "/ISK5\2M550E-1012"

Headers == {
    IskHeader,
    <<>>,
    <<47, 65, 66>>,                \* "/AB"
    <<47, 65, 66, 67>>,            \* "/ABC"
    <<47, 65, 66, 67, 53>>,        \* "/ABC5"
    <<47, 65, 66, 67, 53, 120>>,   \* "/ABC5x"
    <<47, 65, 195, 169, 67, 53>>,     \* "/A", e-acute, "C5"
    <<47, 65, 66, 195, 169, 120>>,    \* "/AB", e-acute, "x"
    <<47, 65, 66, 67, 195, 169>>,     \* "/ABC", e-acute
    <<47, 65, 66, 255, 53>>           \* "/AB", the byte 0xFF, "5"
}

Seps == { BlankLine, <<13, 10>>, <<>> }

(* Body lines, each with the result the dsmr4 dispatcher gives for it.     *)
LinePool == {
    [text |-> <<49, 45, 51, 58, 48, 46, 50, 46, 56, 40, 53, 49, 41>>,     \* "1-3:0.2.8(51)"
     expect |-> Object("Version", "-", <<53, 49>>)],
    [text |-> <<49, 45, 48, 58, 53, 49, 46, 55, 46, 48, 40, 48, 48, 50, 42, 65, 41>>,     \* "1-0:51.7.0(002*A)"
     expect |-> Object("InstantaneousCurrentL2", "-", 2)],
    [text |-> <<49, 45, 51, 58, 48, 46, 50, 46, 56>>,     \* "1-3:0.2.8"
     expect |-> InvalidFormat],
    [text |-> <<49, 45, 48, 58, 51, 49, 46, 55, 46, 48, 40, 48, 120, 50, 42, 65, 41>>,     \* "1-0:31.7.0(0x2*A)"
     expect |-> InvalidFormat],
    [text |-> <<57, 45, 57, 58, 57, 46, 57, 46, 57, 40, 49, 41>>,     \* "9-9:9.9.9(1)"
     expect |-> UnknownObis]
}

VersionLine == CHOOSE l \in LinePool : l.expect.kind = "Ok" /\ l.expect.tag = "Version"

LineSeqs(n) == UNION { [1..m -> LinePool] : m \in 0..n }

RECURSIVE Body(_)
Body(ls) ==
    IF ls = <<>> THEN <<>> ELSE Head(ls).text \o <<13, 10>> \o Body(Tail(ls))

HexUpper == <<48, 49, 50, 51, 52, 53, 54, 55, 56, 57, 65, 66, 67, 68, 69, 70>>     \* "0123456789ABCDEF"
HexLower == <<48, 49, 50, 51, 52, 53, 54, 55, 56, 57, 97, 98, 99, 100, 101, 102>>   \* "0123456789abcdef"

Hex4(c, digits) ==
    << digits[(c \div 4096) + 1], digits[((c \div 256) % 16) + 1],
       digits[((c \div 16) % 16) + 1], digits[(c % 16) + 1] >>

TrailerKinds ==
    { "good", "lower", "wrong", "plus", "nonhex", "short", "split", "noterm" }

(* What follows the checksummed bytes, of which c is the CRC.              *)
Trailer(kind, c) ==
    CASE kind = "good" -> Hex4(c, HexUpper)
      [] kind = "lower" -> Hex4(c, HexLower)
      [] kind = "wrong" -> Hex4((c + 1) % 65536, HexUpper)
      [] kind = "plus" -> <<43>> \o Tail(Hex4(c, HexUpper))
      [] kind = "nonhex" -> <<49, 50, 71, 52>>
      [] kind = "short" -> <<49, 50>>
      [] kind = "split" -> <<49, 50, 51, 195, 169>>

Frame(in) ==
    LET head == in.header \o in.sep \o Body(in.lines) \o <<Bang>>
    IN  IF in.trailer = "noterm" THEN in.header \o in.sep \o Body(in.lines)
        ELSE head \o Trailer(in.trailer, crc16_ARC(head))

ZeroFilled(f) == [k \in 1..ReadoutLen |-> IF k <= Len(f) THEN f[k] ELSE 0]

Inputs ==
    { [header |-> h, sep |-> sp, lines |-> ls, trailer |-> tk] :
        h \in Headers, sp \in Seps, ls \in { <<>>, <<VersionLine>> },
        tk \in TrailerKinds }
    \cup
    { [header |-> IskHeader, sep |-> BlankLine, lines |-> ls, trailer |-> tk] :
        ls \in LineSeqs(MaxLines), tk \in { "good" } }

NoReader ==
    /\ stream = <<>>
    /\ pos = 0
    /\ results = <<>>
    /\ spans = <<>>

TelegramInit ==
    /\ \E in \in Inputs :
          /\ input = in
          /\ readout = ZeroFilled(Frame(in))
    /\ telegram = Pending
    /\ iter = Idle
    /\ yielded = <<>>
    /\ NoReader
    /\ NoDispatch
    /\ NoCall
    /\ NoFold

to_telegram_call ==
    /\ telegram = Pending
    /\ \E buffer \in {readout} : telegram' = to_telegram(buffer)
    /\ UNCHANGED <<fold, state, applied, converted,
                 objLine, parsed, call, ret, stream, pos, results, spans,
                 input, readout, iter, yielded>>

(* Telegram::objects: the iterator over the lines of object_buffer.        *)
objects ==
    /\ telegram.kind = "Ok"
    /\ ~iter.on
    /\ iter' = [on |-> TRUE, done |-> FALSE, rest |-> telegram.object_buffer]
    /\ UNCHANGED <<fold, state, applied, converted,
                 objLine, parsed, call, ret, stream, pos, results, spans,
                 input, readout, telegram, yielded>>

(* next() on that iterator.                                                *)
objects_next ==
    /\ iter.on
    /\ ~iter.done
    /\ \E st \in {objects_step(iter.rest)} :
          IF st.some
          THEN /\ yielded' = Append(yielded, st.item)
               /\ iter' = [iter EXCEPT !.rest = st.rest]
          ELSE /\ yielded' = yielded
               /\ iter' = [iter EXCEPT !.done = TRUE]
    /\ UNCHANGED <<fold, state, applied, converted,
                 objLine, parsed, call, ret, stream, pos, results, spans,
                 input, readout, telegram>>

TelegramNext == to_telegram_call \/ objects \/ objects_next

SpecTelegram == TelegramInit /\ [][TelegramNext]_vars

----------------------------------------------------------------------------
(* The body lines the dispatchers are run on: a reference, then the value  *)
(* fields.                                                                 *)

ChannelDigits == 48..57     \* '0'..'9'

SubReferences == {
    <<50, 52, 46, 49, 46, 48>>,   \* "24.1.0"
    <<57, 54, 46, 49, 46, 48>>,   \* "96.1.0"
    <<50, 52, 46, 50, 46, 49>>,   \* "24.2.1"
    <<50, 52, 46, 52, 46, 48>>,   \* "24.4.0"
    <<50, 52, 46, 50, 46, 51>>,   \* "24.2.3"
    <<57, 54, 46, 49, 46, 49>>,   \* "96.1.1"
    <<50, 52, 46, 57, 46, 57>>    \* "24.9.9"
}

(* "0-d:sub" for every digit d and every sub-reference.                    *)
ChannelReferences ==
    { <<48, 45, d, 58>> \o sub : d \in ChannelDigits, sub \in SubReferences }

OddReferences == {
    <<53, 45, 48, 58, 50, 52, 46, 50, 46, 49>>,   \* "5-0:24.2.1"
    <<57, 45, 57, 58, 57, 46, 57, 46, 57>>,   \* "9-9:9.9.9"
    <<48, 45, 120, 58, 50, 52, 46, 50, 46, 49>>,   \* "0-x:24.2.1"
    <<48, 45, 43, 58, 50, 52, 46, 50, 46, 49>>,   \* "0-+:24.2.1"
    <<49, 45, 48, 58, 49, 46, 56, 46, 49, 120>>,   \* "1-0:1.8.1x"
    <<>>,   \* ""
    <<48, 45, 195, 169, 50, 52, 46, 50, 46, 49>>,   \* "0-", e-acute, "24.2.1"
    <<48, 45, 49, 195, 169, 52, 46, 50, 46, 49>>,   \* "0-1", e-acute, "4.2.1"
    <<195, 169, 45, 49, 58, 50, 52, 46, 50, 46>>    \* e-acute, "-1:24.2."
}

TableReferences ==
    { e.ref : e \in Dsmr4Table \cup Dsmr5Table \cup EMucsTable }
    \cup { <<48, 45, 48, 58, 57, 54, 46, 49, 46, 52>>, <<49, 45, 48, 58, 49, 46, 54, 46, 48>> }

References == TableReferences \cup ChannelReferences \cup OddReferences

ValueFields == {
    <<40, 48, 48, 53, 55, 54, 46, 50, 51, 57, 42, 107, 87, 104, 41>>,   \* "(00576.239*kWh)"
    <<40, 48, 48, 48, 53, 55, 54, 46, 50, 51, 57, 42, 107, 87, 104, 41>>,   \* "(000576.239*kWh)"
    <<40, 49, 57, 48, 51, 50, 48, 49, 56, 49, 48, 48, 51, 87, 41, 40, 48, 48, 51, 48, 52, 46, 48, 56, 57, 42, 109, 51, 41>>,   \* "(190320181003W)(00304.089*m3)"
    <<40, 49, 57, 48, 51, 50, 48, 49, 56, 49, 48, 48, 51, 83, 41, 40, 48, 51, 48, 52, 46, 48, 56, 57, 48, 42, 109, 51, 41>>,   \* "(190320181003S)(0304.0890*m3)"
    <<40, 49, 57, 48, 51, 50, 48, 49, 56, 49, 48, 48, 51, 87, 41, 40, 48, 48, 48, 51, 48, 52, 46, 56, 57, 42, 109, 51, 41>>,   \* "(190320181003W)(000304.89*m3)"
    <<40, 49, 57, 48, 51, 50, 48, 49, 56, 49, 48, 48, 51, 87, 41, 40, 48, 49, 46, 49, 57, 51, 42, 107, 87, 41>>,   \* "(190320181003W)(01.193*kW)"
    <<40, 49, 57, 48, 51, 50, 48, 49, 56, 49, 48, 48, 51, 87, 41, 40, 48, 48, 48, 48, 48, 48, 48, 51, 48, 52, 46, 48, 56, 57, 42, 109, 51, 41>>,   \* "(190320181003W)(0000000304.089*m3)"
    <<40, 49, 57, 48, 51, 50, 48, 49, 56, 49, 48, 48, 51, 87, 41, 40, 48, 48, 48, 48, 48, 51, 48, 52, 46, 57, 42, 109, 51, 41>>,   \* "(190320181003W)(00000304.9*m3)"
    <<40, 49, 57, 48, 51, 50, 48, 49, 56, 49, 52, 48, 51, 87, 41>>,   \* "(190320181403W)"
    <<40, 48, 48, 50, 42, 65, 41>>,   \* "(002*A)"
    <<40, 48, 48, 49, 46, 50, 51, 42, 65, 41>>,   \* "(001.23*A)"
    <<40, 50, 51, 48, 46, 49, 42, 86, 41>>,   \* "(230.1*V)"
    <<40, 53, 49, 41>>,   \* "(51)"
    <<40, 52, 53, 51, 48, 41>>,   \* "(4530)"
    <<40, 49, 50, 51, 52, 53, 41>>,   \* "(12345)"
    <<40, 49, 41>>,   \* "(1)"
    <<40, 120, 41>>,   \* "(x)"
    <<40, 41>>,   \* "()"
    <<40>>,   \* "("
    <<40, 49, 57, 48, 51, 50, 48, 49, 56, 49, 52, 48, 51, 195, 169, 41>>    \* "(190320181403", e-acute, ")"
}

(* The lines fed to the dispatchers: a reference with its value fields,    *)
(* and a reference alone.                                                  *)
Lines == { r \o b : r \in References, b \in ValueFields } \cup References

NotParsed == [l \in Layers |-> Pending]

DispatchInit ==
    /\ objLine \in Lines
    /\ parsed = NotParsed
    /\ NoReader
    /\ NoTelegram
    /\ NoCall
    /\ NoFold

(* T::parse_line(objLine) with T the OBIS of the layer.                    *)
parse_line_call(layer) ==
    /\ parsed[layer] = Pending
    /\ \E l \in {objLine} :
          parsed' = [parsed EXCEPT ![layer] = parse_line_of(layer, l)]
    /\ UNCHANGED <<fold, state, applied, converted,
                 objLine, call, ret, stream, pos, results, spans, input,
                   readout, telegram, iter, yielded>>

dsmr4_parse_line == parse_line_call("dsmr4")
dsmr5_parse_line == parse_line_call("dsmr5")
e_mucs_parse_line == parse_line_call("e_mucs")

DispatchNext == dsmr4_parse_line \/ dsmr5_parse_line \/ e_mucs_parse_line

SpecDispatch == DispatchInit /\ [][DispatchNext]_vars

----------------------------------------------------------------------------
(* The calls of the field decoders of src/types.rs: the decoder and its    *)
(* arguments.                                                              *)

Alphabet == { 48, 55, 46, 41 }     \* '0' '7' '.' ')'

(* "(" followed by at most MaxBodyLen characters of the alphabet.          *)
Bodies ==
    { <<40>> \o s : s \in UNION { [1..m -> Alphabet] : m \in 0..MaxBodyLen } }

DoubleCalls ==
    { [fn |-> "UFixedDouble", body |-> b, length |-> l, point |-> p] :
        b \in Bodies, l \in 1..MaxWidth, p \in 0..MaxWidth }
    \cup {
        [fn |-> "UFixedDouble", body |-> <<40, 48, 48, 48, 53, 55, 54, 46, 50, 51, 57, 42, 107, 87, 104, 41>>, length |-> 9, point |-> 3],
        [fn |-> "UFixedDouble", body |-> <<40, 48, 48, 53, 55, 54, 46, 50, 51, 57, 42, 107, 87, 104, 41>>, length |-> 9, point |-> 3],
        [fn |-> "UFixedDouble", body |-> <<40, 50, 51, 48, 46, 49, 42, 86, 41>>, length |-> 4, point |-> 1],
        [fn |-> "UFixedDouble", body |-> <<40, 48, 49, 46, 49, 57, 51, 42, 107, 87, 41>>, length |-> 5, point |-> 3],
        [fn |-> "UFixedDouble", body |-> <<40, 43, 55, 46, 48, 41>>, length |-> 3, point |-> 1],
        [fn |-> "UFixedDouble", body |-> <<40, 55, 46, 43, 48, 41>>, length |-> 3, point |-> 2],
        [fn |-> "UFixedDouble", body |-> <<40, 55, 195, 169, 48, 41>>, length |-> 3, point |-> 1],
        [fn |-> "UFixedDouble", body |-> <<40, 55, 48, 195, 169, 41>>, length |-> 3, point |-> 1],
        [fn |-> "UFixedDouble", body |-> <<40, 55, 120, 48, 41>>, length |-> 2, point |-> 1],
        [fn |-> "UFixedDouble", body |-> <<40, 55, 46, 120, 41>>, length |-> 2, point |-> 1],
        [fn |-> "UFixedDouble", body |-> <<40, 120, 46, 55, 41>>, length |-> 2, point |-> 1],
        [fn |-> "UFixedDouble", body |-> <<40, 55, 46, 48, 41>>, length |-> 2, point |-> 3]
    }

TstCalls == { [fn |-> "TST", body |-> b] : b \in {
        <<40, 49, 57, 48, 51, 50, 48, 49, 56, 49, 52, 48, 51, 87, 41>>,
        <<40, 49, 57, 48, 51, 50, 48, 49, 56, 49, 52, 48, 51, 83, 41>>,
        <<40, 49, 57, 48, 51, 50, 48, 49, 56, 49, 52, 48, 51, 88, 41>>,
        <<40, 49, 57, 48, 51, 50, 48, 49, 56, 49, 52, 48, 51, 41, 41>>,
        <<40, 49, 57, 48, 51, 50, 48, 49, 56, 49, 52, 48, 51, 87>>,
        <<40, 49, 57, 48, 51, 50, 48, 49, 56, 49, 52, 48, 51, 83>>,
        <<40, 49, 57, 48, 51, 50, 48, 49, 56, 49, 52, 48, 51>>,
        <<40, 49, 57, 48, 51, 50, 48, 49, 56, 49, 52, 48, 51, 87, 41, 42>>,
        <<40, 57, 57, 49, 50, 51, 49, 50, 51, 53, 57, 53, 57, 83, 41>>,
        <<40, 48, 48, 48, 48, 48, 48, 48, 48, 48, 48, 48, 48, 87, 41>>,
        <<40, 49, 57, 48, 51, 50, 48, 49, 56, 49, 52, 48, 120, 87, 41>>,
        <<40, 120, 57, 48, 51, 50, 48, 49, 56, 49, 52, 48, 51, 87, 41>>,
        <<40, 43, 57, 48, 51, 50, 48, 49, 56, 49, 52, 48, 51, 87, 41>>,
        <<40, 49, 57, 48, 51, 50, 48, 49, 56, 49, 52, 32, 51, 87, 41>>,
        <<40, 49, 57, 48, 51, 50, 48, 49, 56, 49, 52, 48, 51, 119, 41>>,
        <<40, 49, 57, 48, 51, 50, 48, 49, 56, 49, 52, 48, 51, 195, 169, 41>>,
        <<40, 49, 57, 48, 51, 50, 48, 49, 56, 49, 52, 48, 195, 169, 87, 41>>,
        <<40, 49, 57, 48, 51, 50, 48, 49, 56, 49, 52, 195, 169, 87, 41>>,
        <<40, 41>>,
        <<40>>,
        <<>>,
        <<40, 49, 57, 48, 51, 50, 48, 49, 56, 49, 52, 48, 195, 169, 41>>
    } }

MaxCalls ==
    { [fn |-> "OctetString_max", body |-> b, max_length |-> m] :
        b \in Bodies, m \in 0..MaxWidth }
    \cup {
        [fn |-> "OctetString_max", body |-> <<40, 52, 53, 51, 48, 41>>, max_length |-> 96],
        [fn |-> "OctetString_max", body |-> <<40, 52, 53, 51, 48, 41>>, max_length |-> 4],
        [fn |-> "OctetString_max", body |-> <<40, 52, 53, 51, 48, 41>>, max_length |-> 3],
        [fn |-> "OctetString_max", body |-> <<40, 52, 53, 195, 169, 41>>, max_length |-> 4],
        [fn |-> "OctetString_max", body |-> <<40, 52, 53, 195, 169, 41>>, max_length |-> 3],
        [fn |-> "OctetString_max", body |-> <<40, 52, 53, 51, 48>>, max_length |-> 96],
        [fn |-> "OctetString_max", body |-> <<40, 41>>, max_length |-> 0]
    }

DecoderCalls == DoubleCalls \cup TstCalls \cup MaxCalls

TypesInit ==
    /\ call \in DecoderCalls
    /\ ret = Pending
    /\ NoReader
    /\ NoTelegram
    /\ NoDispatch
    /\ NoFold

UFixedDouble_parse_call ==
    /\ ret = Pending
    /\ call.fn = "UFixedDouble"
    /\ \E c \in {call} : ret' = UFixedDouble_parse(c.body, c.length, c.point)
    /\ UNCHANGED <<fold, state, applied, converted,
                 call, objLine, parsed, stream, pos, results, spans, input,
                   readout, telegram, iter, yielded>>

TST_parse_call ==
    /\ ret = Pending
    /\ call.fn = "TST"
    /\ \E c \in {call} : ret' = TST_parse(c.body)
    /\ UNCHANGED <<fold, state, applied, converted,
                 call, objLine, parsed, stream, pos, results, spans, input,
                   readout, telegram, iter, yielded>>

OctetString_parse_max_call ==
    /\ ret = Pending
    /\ call.fn = "OctetString_max"
    /\ \E c \in {call} : ret' = OctetString_parse_max(c.body, c.max_length)
    /\ UNCHANGED <<fold, state, applied, converted,
                 call, objLine, parsed, stream, pos, results, spans, input,
                   readout, telegram, iter, yielded>>

TypesNext ==
    UFixedDouble_parse_call \/ TST_parse_call \/ OctetString_parse_max_call

SpecTypes == TypesInit /\ [][TypesNext]_vars

----------------------------------------------------------------------------
(* What the claims about the Reader speak of, stated on the source itself. *)

Padded(f) == [k \in 1..BufLen |-> IF k <= Len(f) THEN f[k] ELSE 0]

Bytes(s, lo, hi) == \A j \in lo..hi : s[j] # IoErr

NoSlash(s, lo, hi) == \A j \in lo..hi : s[j] \notin {Slash, IoErr}

(* Positions a..b of s hold a well-formed frame: '/', a body without       *)
(* terminator, '!', and CrcLen checksum bytes, in at most BufLen bytes.    *)
WellFormedAt(s, a, b) ==
    /\ 1 <= a /\ b <= Len(s) /\ a < b - CrcLen
    /\ b - a + 1 <= BufLen
    /\ s[a] = Slash
    /\ s[b - CrcLen] = Bang
    /\ \A j \in (a + 1)..(b - CrcLen - 1) : s[j] \notin {Bang, IoErr}
    /\ Bytes(s, b - CrcLen + 1, b)

(* The first start marker after position p, 0 when there is none.          *)
NextSlash(s, p) ==
    IF \E a \in (p + 1)..Len(s) : s[a] = Slash
    THEN CHOOSE a \in (p + 1)..Len(s) :
            s[a] = Slash /\ \A j \in (p + 1)..(a - 1) : s[j] # Slash
    ELSE 0

Calls == 1..Len(results)

(* The frames of a source that, after position p, is made only of bytes    *)
(* that are no start marker and of well-formed frames.                     *)
RECURSIVE FramesFrom(_, _)
FramesFrom(s, p) ==
    LET a == NextSlash(s, p)
    IN  IF a = 0 THEN [ok |-> Bytes(s, p + 1, Len(s)), frames |-> <<>>]
        ELSE IF Bytes(s, p + 1, a - 1) /\ \E b \in a..Len(s) : WellFormedAt(s, a, b)
        THEN LET b == CHOOSE b \in a..Len(s) : WellFormedAt(s, a, b)
                 rest == FramesFrom(s, b)
             IN  [ok |-> rest.ok, frames |-> <<SubSeq(s, a, b)>> \o rest.frames]
        ELSE [ok |-> FALSE, frames |-> <<>>]

(* C1: after Reader::next has yielded BufferOverFlow, when the source goes *)
(* on with bytes that hold no start marker and then with a well-formed     *)
(* frame, the next call yields that frame as a Readout: the frame's bytes, *)
(* then zeros, and no item the overflowing call took.                      *)
C1_RecoverFromOverflow ==
    \A k \in Calls : \A b \in 1..Len(stream) :
        LET p == spans[k].start + BufLen
            a == NextSlash(stream, p)
        IN  ( /\ results[k] = BufferOverFlow
              /\ k < Len(results)
              /\ a # 0
              /\ Bytes(stream, p + 1, a - 1)
              /\ WellFormedAt(stream, a, b) )
            => /\ results[k + 1] = Readout(Padded(SubSeq(stream, a, b)))
               /\ spans[k].after < a
               /\ spans[k + 1].start = a
               /\ spans[k + 1].after = b

(* An overflow whose oversized frame has an unread rest, then the frame.   *)
C1_Witness ==
    \E k \in Calls : \E b \in 1..Len(stream) :
        /\ results[k] = BufferOverFlow
        /\ k < Len(results)
        /\ results[k + 1].kind = "Readout"
        /\ spans[k + 1].start > spans[k].after + 1
        /\ WellFormedAt(stream, spans[k + 1].start, b)

(* C2: on a source made of bytes without start marker followed by n        *)
(* well-formed frames separated by bytes that are no start marker, the     *)
(* calls yield those n frames in order, then None.                         *)
C2_FramesInOrder ==
    LET d == FramesFrom(stream, 0)
        n == Len(d.frames)
    IN  d.ok =>
            /\ Len(results) <= n + 1
            /\ \A k \in Calls :
                   results[k] = IF k <= n THEN Readout(Padded(d.frames[k]))
                                ELSE None

(* Leading bytes, two frames, the closing None.                            *)
C2_Witness ==
    LET d == FramesFrom(stream, 0)
    IN  /\ d.ok
        /\ Len(d.frames) = 2
        /\ stream[1] # Slash
        /\ Len(results) = 3
        /\ results[3] = None

(* C3: when a frame is truncated (a start marker, then bytes without       *)
(* terminator up to the next start marker) and a well-formed frame follows *)
(* it, that frame is yielded as a Readout of its own, beginning at its own *)
(* start marker.                                                           *)
C3_ResyncAfterTruncation ==
    \A k \in Calls : \A a, b \in 1..Len(stream) :
        LET a0 == spans[k].start
        IN  ( /\ a0 # 0 /\ a0 < a
              /\ \A j \in (a0 + 1)..(a - 1) : stream[j] \notin {Bang, Slash, IoErr}
              /\ WellFormedAt(stream, a, b)
              /\ pos >= b )
            => \E j \in Calls :
                  /\ results[j] = Readout(Padded(SubSeq(stream, a, b)))
                  /\ spans[j].start = a

(* C4: a call that yields BufferOverFlow has taken the start marker and    *)
(* BufLen more items; the next call seeks from the item after them and     *)
(* yields what a fresh Reader yields on the unread rest.  Every call takes *)
(* up where the last one stopped, so no item is taken twice, and the       *)
(* Readouts hold disjoint ranges of the source.                            *)
C4_ConsumedOnce ==
    /\ \A k \in Calls :
          /\ spans[k].before = (IF k = 1 THEN 0 ELSE spans[k - 1].after)
          /\ spans[k].before <= spans[k].after
          /\ spans[k].start # 0 =>
                spans[k].before < spans[k].start /\ spans[k].start <= spans[k].after
          /\ results[k] = BufferOverFlow =>
                /\ spans[k].after = spans[k].start + BufLen
                /\ k < Len(results) =>
                      results[k + 1] =
                        ReaderNext(SubSeq(stream, spans[k].after + 1, Len(stream)), 0).item
          /\ results[k].kind = "Readout" =>
                results[k].buffer =
                    Padded(SubSeq(stream, spans[k].start, spans[k].after))
    /\ \A j, k \in Calls :
          (j < k /\ results[j].kind = "Readout" /\ results[k].kind = "Readout")
              => spans[j].after < spans[k].start

(* An overflow followed by another call that yields a Readout.             *)
C4_Witness ==
    \E k \in Calls :
        /\ results[k] = BufferOverFlow
        /\ k < Len(results)
        /\ results[k + 1].kind = "Readout"
        /\ spans[k + 1].before = spans[k].start + BufLen

(* C5: a call during which the source ends while seeking, or while copying *)
(* a frame whose terminator has not come, returns None.                    *)
C5_ExhaustedIsNone ==
    \A k \in Calls :
        LET p == spans[k].before
            a == NextSlash(stream, p)
        IN  /\ (a = 0 /\ Bytes(stream, p + 1, Len(stream)))
                  => results[k] = None /\ spans[k].after = Len(stream)
            /\ ( /\ a # 0
                 /\ Bytes(stream, p + 1, Len(stream))
                 /\ \A j \in (a + 1)..Len(stream) : stream[j] # Bang
                 /\ Len(stream) - a < BufLen )
                  => results[k] = None /\ spans[k].after = Len(stream)

(* The source ended inside a frame, after a frame was yielded.             *)
C5_Witness ==
    \E k \in Calls :
        /\ k > 1
        /\ results[k - 1].kind = "Readout"
        /\ results[k] = None
        /\ spans[k].start # 0
        /\ spans[k].start < Len(stream)
        /\ \A j \in spans[k].start..Len(stream) : stream[j] # Bang

----------------------------------------------------------------------------
(* What the claims about to_telegram and Telegram::objects speak of.       *)

HexDigit(b) == b \in 48..57 \/ b \in 65..70 \/ b \in 97..102

HexDigitValue(b) ==
    IF b \in 48..57 THEN b - 48 ELSE IF b \in 65..70 THEN b - 55 ELSE b - 87

(* The 0-based offset of the first '!' of buffer b, -1 without one.        *)
FirstBang(b) ==
    IF \E k \in 1..Len(b) : b[k] = Bang
    THEN (CHOOSE k \in 1..Len(b) : b[k] = Bang /\ \A j \in 1..(k - 1) : b[j] # Bang) - 1
    ELSE -1

(* The four bytes after the first '!' are hexadecimal digits.              *)
HexTrailer(b) ==
    LET e == FirstBang(b)
    IN  /\ e >= 0
        /\ e + 1 + CrcLen <= Len(b)
        /\ \A j \in 1..CrcLen : HexDigit(b[e + 1 + j])

Declared(b) ==
    LET e == FirstBang(b)
    IN  HexDigitValue(b[e + 2]) * 4096 + HexDigitValue(b[e + 3]) * 256
        + HexDigitValue(b[e + 4]) * 16 + HexDigitValue(b[e + 5])

(* The length of the frame in b: what comes before the zero fill.          *)
FrameLen(b) ==
    IF \A k \in 1..Len(b) : b[k] = 0 THEN 0
    ELSE CHOOSE k \in 1..Len(b) : b[k] # 0 /\ \A j \in (k + 1)..Len(b) : b[j] = 0

Called == telegram # Pending

(* C6: to_telegram returns InvalidChecksum for every buffer that is valid  *)
(* text, holds a '!' followed by four hexadecimal digits, and whose        *)
(* declared value differs from the CRC-16/ARC of the bytes from the start  *)
(* of the buffer through the first '!', whatever the header and the body   *)
(* hold.                                                                   *)
C6_TamperedIsInvalidChecksum ==
    [][ ( /\ telegram = Pending
          /\ telegram' # Pending
          /\ from_utf8_ok(readout)
          /\ HexTrailer(readout)
          /\ Declared(readout) # crc16_ARC(SubSeq(readout, 1, FirstBang(readout) + 1)) )
        => telegram' = InvalidChecksum ]_vars

(* A buffer without the blank-line separator and with a checksum that is   *)
(* four hexadecimal digits of another value was answered InvalidChecksum.  *)
C6_Witness ==
    /\ telegram = InvalidChecksum
    /\ input.trailer = "wrong"
    /\ HexTrailer(readout)
    /\ find(readout, BlankLine) < 0

(* C7: to_telegram fails with InvalidFormat, never with InvalidChecksum    *)
(* and never succeeds, whenever the four characters after the first '!'    *)
(* are not all hexadecimal digits.                                         *)
C7_NonHexIsInvalidFormat ==
    (Called /\ FirstBang(readout) >= 0 /\ ~HexTrailer(readout))
        => telegram = InvalidFormat

(* C8: to_telegram rejects with InvalidFormat every Readout whose frame,   *)
(* from the start marker through the four checksum characters, is shorter  *)
(* than 16 bytes, the rest of the buffer being zeros.                      *)
C8_ShortIsInvalidFormat ==
    (Called /\ readout[1] = Slash /\ FrameLen(readout) < MinLen)
        => telegram = InvalidFormat

C10_OneResultPerLine ==
    iter.on =>
        /\ Len(yielded) <= Len(input.lines)
        /\ \A k \in 1..Len(yielded) : yielded[k] = input.lines[k].expect
        /\ iter.done => Len(yielded) = Len(input.lines)

(* The iteration ended after a line that failed and a later line that was  *)
(* decoded.                                                                *)
C10_Witness ==
    /\ iter.on
    /\ iter.done
    /\ \E j, k \in 1..Len(yielded) :
          /\ j < k
          /\ yielded[j].kind # "Ok"
          /\ yielded[k].kind = "Ok"

----------------------------------------------------------------------------
(* What the claims about the dispatchers speak of.                         *)

HasParen(l) == \E k \in 1..Len(l) : l[k] = 40

(* The reference of a line: what stands before its first '('.              *)
RefOf(l) ==
    LET k == CHOOSE k \in 1..Len(l) : l[k] = 40 /\ \A j \in 1..(k - 1) : l[j] # 40
    IN  SubSeq(l, 1, k - 1)

(* The value fields of a line: its text from the first '(' on.             *)
FieldsOf(l) == SubSeq(l, Len(RefOf(l)) + 1, Len(l))

ParsedLayers == { l \in Layers : parsed[l] # Pending }

Ascii(s) == \A k \in 1..Len(s) : s[k] < 128

(* A 10-character reference "0-d..." whose digit d is 0 or 5..9.           *)
ChannelOutOfRange(r) ==
    /\ Len(r) = 10
    /\ Ascii(r)
    /\ SubSeq(r, 1, 2) = <<48, 45>>
    /\ r[3] \in {48} \cup 53..57

(* C11: dispatching a line whose reference carries a channel digit outside *)
(* 1..4 fails with InvalidFormat, not with UnknownObis, in every layer:    *)
(* for a 10-character reference beginning "0-" with the digit 0 or 5..9 at *)
(* offset 2 that no table holds, and for the reference "5-0:24.2.1".       *)
C11_ChannelOutOfRangeIsInvalidFormat ==
    ( /\ HasParen(objLine)
      /\ RefOf(objLine) \notin TableReferences
      /\ \/ ChannelOutOfRange(RefOf(objLine))
         \/ RefOf(objLine) = <<53, 45, 48, 58, 50, 52, 46, 50, 46, 49>> )
    => \A l \in ParsedLayers : parsed[l] = InvalidFormat

(* The references only the base layer defines: those of its exact table    *)
(* that no higher table holds, and its channel references.                 *)
BaseOnly ==
    ({ e.ref : e \in Dsmr4Table }
        \ ({ e.ref : e \in Dsmr5Table \cup EMucsTable }
             \cup { <<48, 45, 48, 58, 57, 54, 46, 49, 46, 52>>,
                    <<49, 45, 48, 58, 49, 46, 54, 46, 48>> }))
    \cup { <<48, 45, d, 58>> \o sub :
             d \in 49..52,
             sub \in { <<50, 52, 46, 49, 46, 48>>, <<57, 54, 46, 49, 46, 48>>,
                       <<50, 52, 46, 50, 46, 49>> } }

AllParsed == ParsedLayers = Layers

(* C12: for a reference that only the base table defines and any value     *)
(* fields, dsmr5 returns Ok(DSMR4(x)) and e_mucs returns                   *)
(* Ok(DSMR5(DSMR4(x))) exactly when dsmr4 returns Ok(x), and an error of   *)
(* dsmr4 is returned unchanged by both; so for the 10-character base       *)
(* references that begin "0-0:".                                           *)
C12_BaseReachableThroughLayers ==
    (AllParsed /\ HasParen(objLine) /\ RefOf(objLine) \in BaseOnly) =>
        LET x == parsed["dsmr4"]
            inDsmr5 == [kind |-> "Ok", tag |-> "DSMR4", idx |-> "-", v |-> x]
        IN  IF x.kind = "Ok"
            THEN /\ parsed["dsmr5"] = inDsmr5
                 /\ parsed["e_mucs"] =
                       [kind |-> "Ok", tag |-> "DSMR5", idx |-> "-", v |-> inDsmr5]
            ELSE /\ parsed["dsmr5"] = x
                 /\ parsed["e_mucs"] = x

(* "0-0:96.1.1(4530)" was decoded by the three layers.                     *)
C12_Witness ==
    /\ AllParsed
    /\ objLine = <<48, 45, 48, 58, 57, 54, 46, 49, 46, 49, 40, 52, 53, 51, 48, 41>>
    /\ parsed["dsmr4"].kind = "Ok"
    /\ parsed["dsmr4"].tag = "EquipmentIdentifier"
    /\ parsed["e_mucs"].kind = "Ok"

(* The references of the own tables of a layer above the base.             *)
OwnReferences(layer) ==
    IF layer = "dsmr5" THEN { e.ref : e \in Dsmr5Table }
    ELSE { e.ref : e \in EMucsTable }
         \cup { <<48, 45, 48, 58, 57, 54, 46, 49, 46, 52>>,
                <<49, 45, 48, 58, 49, 46, 54, 46, 48>> }

(* "1-0:31.7.0", "1-0:51.7.0", "1-0:71.7.0" with their Line.               *)
CurrentReferences ==
    { [ref |-> <<49, 45, 48, 58, 51, 49, 46, 55, 46, 48>>, idx |-> "Line1"],
      [ref |-> <<49, 45, 48, 58, 53, 49, 46, 55, 46, 48>>, idx |-> "Line2"],
      [ref |-> <<49, 45, 48, 58, 55, 49, 46, 55, 46, 48>>, idx |-> "Line3"] }

(* C13: a layer consults the next older layer only when its own table      *)
(* reports UnknownObis: for a reference of its own table its own result,   *)
(* Ok or InvalidFormat, is final and the decoding of the base is never     *)
(* returned; e_mucs decodes 1-0:31.7.0, 1-0:51.7.0, 1-0:71.7.0 as          *)
(* fixed-point of width 5 and point 2, not as the width-3 integer of the   *)
(* base.                                                                   *)
C13_OwnTableIsFinal ==
    HasParen(objLine) =>
        /\ \A l \in ParsedLayers \cap { "dsmr5", "e_mucs" } :
              RefOf(objLine) \in OwnReferences(l) =>
                  /\ parsed[l].kind \in { "Ok", "InvalidFormat" }
                  /\ parsed["dsmr4"].kind = "Ok" =>
                        LET inDsmr5 == [kind |-> "Ok", tag |-> "DSMR4",
                                        idx |-> "-", v |-> parsed["dsmr4"]]
                        IN  /\ parsed[l] # inDsmr5
                            /\ parsed[l] # [kind |-> "Ok", tag |-> "DSMR5",
                                            idx |-> "-", v |-> inDsmr5]
        /\ \A c \in CurrentReferences :
              (RefOf(objLine) = c.ref /\ parsed["e_mucs"] # Pending) =>
                  \* "(001.23*A)" and "(002*A)"
                  /\ FieldsOf(objLine) = <<40, 48, 48, 49, 46, 50, 51, 42, 65, 41>> =>
                        parsed["e_mucs"] =
                            [kind |-> "Ok", tag |-> "InstantaneousCurrent",
                             idx |-> c.idx, v |-> [buffer |-> 123, point |-> 2]]
                  /\ FieldsOf(objLine) = <<40, 48, 48, 50, 42, 65, 41>> =>
                        parsed["e_mucs"] = InvalidFormat

(* "1-0:31.7.0(002*A)" was decoded by the base and refused by e_mucs.      *)
C13_Witness ==
    /\ objLine = <<49, 45, 48, 58, 51, 49, 46, 55, 46, 48, 40, 48, 48, 50, 42, 65, 41>>
    /\ parsed["dsmr4"].kind = "Ok"
    /\ parsed["e_mucs"] = InvalidFormat

(* The sub-references the channel arms of the layers know.                 *)
KnownSubReferences ==
    { <<50, 52, 46, 49, 46, 48>>, <<57, 54, 46, 49, 46, 48>>,   \* "24.1.0" "96.1.0"
      <<50, 52, 46, 50, 46, 49>>, <<50, 52, 46, 52, 46, 48>>,   \* "24.2.1" "24.4.0"
      <<50, 52, 46, 50, 46, 51>>, <<57, 54, 46, 49, 46, 49>> }  \* "24.2.3" "96.1.1"

(* A reference "0-n..." of a channel n in 1..4 with a known sub-reference  *)
(* from offset 4 on.                                                       *)
ValidChannelReference(r) ==
    /\ Len(r) = 10
    /\ SubSeq(r, 1, 2) = <<48, 45>>
    /\ r[3] \in 49..52
    /\ SubSeq(r, 5, 10) \in KnownSubReferences

(* C14: a line that holds '(' and whose reference is in no exact table and *)
(* is no valid channel reference yields UnknownObis, never InvalidFormat,  *)
(* from the dispatcher of every layer, whatever its value fields hold.     *)
C14_UnknownReferenceIsUnknownObis ==
    ( /\ HasParen(objLine)
      /\ RefOf(objLine) \notin TableReferences
      /\ ~ValidChannelReference(RefOf(objLine)) )
    => \A l \in ParsedLayers : parsed[l] = UnknownObis

(* C15: "1-0:1.8.1(000576.239*kWh)", dispatched with the width 9 and the   *)
(* point 3 of the table, decodes to the mantissa 576239 with point 3; the  *)
(* line "1-0:1.8.1(00576.239*kWh)", whose value has eight digits, is       *)
(* answered InvalidFormat.                                                 *)
C15_MeterReadingNineDigits ==
    parsed["dsmr4"] # Pending =>
        /\ objLine = <<49, 45, 48, 58, 49, 46, 56, 46, 49, 40, 48, 48, 48, 53,
                       55, 54, 46, 50, 51, 57, 42, 107, 87, 104, 41>> =>
              parsed["dsmr4"] =
                  [kind |-> "Ok", tag |-> "MeterReadingTo", idx |-> "Tariff1",
                   v |-> [buffer |-> 576239, point |-> 3]]
        /\ objLine = <<49, 45, 48, 58, 49, 46, 56, 46, 49, 40, 48, 48, 53, 55,
                       54, 46, 50, 51, 57, 42, 107, 87, 104, 41>> =>
              parsed["dsmr4"] = InvalidFormat

(* "1-0:1.8.1(000576.239*kWh)" was decoded by the base dispatcher.         *)
C15_Witness ==
    /\ objLine = <<49, 45, 48, 58, 49, 46, 56, 46, 49, 40, 48, 48, 48, 53,
                   55, 54, 46, 50, 51, 57, 42, 107, 87, 104, 41>>
    /\ parsed["dsmr4"].kind = "Ok"

(* C15 as stated: "1-0:1.8.1(00576.239*kWh)" decodes to the mantissa       *)
(* 576239 with point 3.                                                    *)
C15_MeterReadingAsStated ==
    ( /\ parsed["dsmr4"] # Pending
      /\ objLine = <<49, 45, 48, 58, 49, 46, 56, 46, 49, 40, 48, 48, 53, 55,
                     54, 46, 50, 51, 57, 42, 107, 87, 104, 41>> )
    => /\ parsed["dsmr4"].kind = "Ok"
       /\ parsed["dsmr4"].v = [buffer |-> 576239, point |-> 3]

----------------------------------------------------------------------------
(* What the claims about the field decoders speak of.                      *)

IsDigit(b) == b \in 48..57

(* A base-10 numeral: digits, at least one, after an optional '+'.         *)
Numeral(s) ==
    LET d == IF s # <<>> /\ s[1] = 43 THEN Tail(s) ELSE s
    IN  d # <<>> /\ \A k \in 1..Len(d) : IsDigit(d[k])

RECURSIVE DigitsValue(_)
DigitsValue(d) ==
    IF d = <<>> THEN 0
    ELSE 10 * DigitsValue(SubSeq(d, 1, Len(d) - 1)) + (d[Len(d)] - 48)

NumeralValue(s) == DigitsValue(IF s[1] = 43 THEN Tail(s) ELSE s)

RECURSIVE TenTo(_)
TenTo(n) == IF n = 0 THEN 1 ELSE 10 * TenTo(n - 1)

(* What the decimal decoder is to return for a body, a width and a point.  *)
DoubleOf(body, L, P) ==
    LET after == Tail(body)
    IN  IF Len(after) < L + 1 THEN InvalidFormat
        ELSE LET integer_part == SubSeq(after, 1, L - P)
                 fractional_part == SubSeq(after, L - P + 2, L + 1)
             IN  IF Numeral(integer_part) /\ Numeral(fractional_part)
                 THEN [kind |-> "Ok",
                       v |-> [buffer |-> NumeralValue(integer_part) * TenTo(P)
                                         + NumeralValue(fractional_part),
                              point |-> P]]
                 ELSE InvalidFormat

Returned(fn) == ret # Pending /\ call.fn = fn

(* C16: UFixedDouble::parse(body, L, P) takes the L+1 characters after     *)
(* '(', splits them at L-P, parses both parts as base-10 integers and      *)
(* returns integer_part * 10^P + fractional_part with the point P; it      *)
(* returns InvalidFormat when fewer than L+1 characters follow '(' or a    *)
(* part is no base-10 numeral.                                             *)
C16_FixedPointDecoding ==
    ( /\ Returned("UFixedDouble")
      /\ call.body # <<>>
      /\ call.body[1] = 40
      /\ call.point <= call.length )
    => ret = DoubleOf(call.body, call.length, call.point)

----------------------------------------------------------------------------
(* The two-field lines of a sub-meter.                                     *)

(* "(190320181003", then the flag and ")".                                 *)
ReadingTime == <<40, 49, 57, 48, 51, 50, 48, 49, 56, 49, 48, 48, 51>>

(* The value fields are the timestamp 19-03-20 18:10:03 and a second       *)
(* group.                                                                  *)
TwoFields(f) ==
    /\ Len(f) > 16
    /\ SubSeq(f, 1, 13) = ReadingTime
    /\ f[14] \in { 83, 87 }
    /\ f[15] = 41
    /\ f[16] = 40

SecondGroup(f) == SubSeq(f, 16, Len(f))

HasDot(g) == \E k \in 1..Len(g) : g[k] = 46

(* The index of the first '.' of a group, its '(' being at index 0.        *)
DotIndex(g) ==
    (CHOOSE k \in 1..Len(g) : g[k] = 46 /\ \A j \in 1..(k - 1) : g[j] # 46) - 1

ReadingTst(f) ==
    [year |-> 19, month |-> 3, day |-> 20, hour |-> 18, minute |-> 10,
     second |-> 3, dst |-> (f[14] = 83)]

(* The wrapping of an object of the base by the layer that returns it.     *)
InLayer(l, x) ==
    LET inDsmr5 == [kind |-> "Ok", tag |-> "DSMR4", idx |-> "-", v |-> x]
    IN  CASE l = "dsmr4" -> x
          [] l = "dsmr5" -> inDsmr5
          [] l = "e_mucs" -> [kind |-> "Ok", tag |-> "DSMR5", idx |-> "-", v |-> inDsmr5]

(* What a layer is to return for the reading of channel n with the fields  *)
(* f, under the variant tag.                                               *)
ReadingOf(tag, n, f) ==
    LET d == DoubleOf(SecondGroup(f), 8, 9 - DotIndex(SecondGroup(f)))
    IN  IF d.kind # "Ok" THEN d
        ELSE [kind |-> "Ok", tag |-> tag,
              idx |-> <<"Slave1", "Slave2", "Slave3", "Slave4">>[n],
              v |-> <<ReadingTst(f), d.v>>]

(* C17: for the two-field lines of a sub-meter, sub-reference 24.2.1 and,  *)
(* in e_mucs, 24.2.3, the second group is decoded as a fixed-point value   *)
(* of width 8 whose point is 9 minus the index of the first '.' of that    *)
(* group; "0-1:24.2.1(190320181003W)(00304.089*m3)" yields Slave1,         *)
(* 19-03-20 18:10:03 with dst false, mantissa 304089 and point 3.          *)
C17_SlaveReadingPoint ==
    /\ \A l \in ParsedLayers :
          ( /\ HasParen(objLine)
            /\ Len(RefOf(objLine)) = 10
            /\ SubSeq(RefOf(objLine), 1, 2) = <<48, 45>>
            /\ RefOf(objLine)[3] \in 49..52
            /\ RefOf(objLine)[4] = 58
            /\ TwoFields(FieldsOf(objLine))
            /\ HasDot(SecondGroup(FieldsOf(objLine)))
            /\ DotIndex(SecondGroup(FieldsOf(objLine))) <= 9 )
          => LET sub == SubSeq(RefOf(objLine), 5, 10)
                 n == RefOf(objLine)[3] - 48
                 f == FieldsOf(objLine)
             IN  /\ sub = <<50, 52, 46, 50, 46, 49>> =>
                       LET x == ReadingOf("SlaveMeterReading", n, f)
                       IN  parsed[l] = IF x.kind = "Ok" THEN InLayer(l, x) ELSE x
                 /\ (sub = <<50, 52, 46, 50, 46, 51>> /\ l = "e_mucs") =>
                       parsed[l] = ReadingOf("SlaveMeterReadingNonCorrected", n, f)
    /\ ( /\ parsed["dsmr4"] # Pending
         /\ objLine = <<48, 45, 49, 58, 50, 52, 46, 50, 46, 49>> \o ReadingTime
                      \o <<87, 41, 40, 48, 48, 51, 48, 52, 46, 48, 56, 57,
                           42, 109, 51, 41>> )
       => parsed["dsmr4"] =
              [kind |-> "Ok", tag |-> "SlaveMeterReading", idx |-> "Slave1",
               v |-> << [year |-> 19, month |-> 3, day |-> 20, hour |-> 18,
                         minute |-> 10, second |-> 3, dst |-> FALSE],
                        [buffer |-> 304089, point |-> 3] >>]

(* A reading whose '.' is at index 5 was decoded with the point 4.         *)
C17_Witness ==
    /\ HasParen(objLine)
    /\ TwoFields(FieldsOf(objLine))
    /\ HasDot(SecondGroup(FieldsOf(objLine)))
    /\ DotIndex(SecondGroup(FieldsOf(objLine))) = 5
    /\ parsed["dsmr4"].kind = "Ok"
    /\ parsed["dsmr4"].tag = "SlaveMeterReading"
    /\ parsed["dsmr4"].v[2] = [buffer |-> 3040890, point |-> 4]

----------------------------------------------------------------------------
(* The timestamp decoder.                                                  *)

(* The two bytes at the offsets 2k-1 and 2k of a body, its '(' being at    *)
(* offset 0, for k = 1..6: year, month, day, hour, minute, second.         *)
TstField(body, k) == SubSeq(body, 2 * k, 2 * k + 1)

(* What the timestamp decoder is to return for a body of TstLen bytes or   *)
(* more.                                                                   *)
TstOf(body) ==
    IF \E k \in 1..6 : ~Numeral(TstField(body, k)) THEN InvalidFormat
    ELSE IF body[14] \notin { 83, 87 } THEN InvalidFormat
    ELSE [kind |-> "Ok",
          v |-> [year |-> NumeralValue(TstField(body, 1)),
                 month |-> NumeralValue(TstField(body, 2)),
                 day |-> NumeralValue(TstField(body, 3)),
                 hour |-> NumeralValue(TstField(body, 4)),
                 minute |-> NumeralValue(TstField(body, 5)),
                 second |-> NumeralValue(TstField(body, 6)),
                 dst |-> (body[14] = 83)]]

(* C18: TST::parse reads the two-digit base-10 fields at the offsets 1, 3, *)
(* 5, 7, 9, 11 as year, month, day, hour, minute, second and the character *)
(* at offset 13 as the flag: 'S' gives dst true, 'W' gives false, anything *)
(* else gives InvalidFormat; "(190320181403W)" decodes to 19-03-20         *)
(* 18:14:03 with dst false.                                                *)
C18_TimestampFields ==
    /\ (Returned("TST") /\ Len(call.body) >= TstLen) => ret = TstOf(call.body)
    /\ ( /\ Returned("TST")
         /\ call.body = <<40, 49, 57, 48, 51, 50, 48, 49, 56, 49, 52, 48, 51,
                          87, 41>> )
       => ret = [kind |-> "Ok",
                 v |-> [year |-> 19, month |-> 3, day |-> 20, hour |-> 18,
                        minute |-> 14, second |-> 3, dst |-> FALSE]]

(* C19, as the code has it: TST::parse returns InvalidFormat when the      *)
(* field, its '(' included, is shorter than TstLen bytes; the field        *)
(* "(190320181403W)", where 14 characters follow the '(', is decoded.      *)
C19_ShortTimestamp ==
    /\ (Returned("TST") /\ Len(call.body) < TstLen) => ret = InvalidFormat
    /\ ( /\ Returned("TST")
         /\ call.body = <<40, 49, 57, 48, 51, 50, 48, 49, 56, 49, 52, 48, 51,
                          87, 41>> )
       => ret.kind = "Ok"

(* A field of TstLen - 1 bytes, well-formed up to its flag, was refused.   *)
C19_Witness ==
    /\ Returned("TST")
    /\ call.body = <<40, 49, 57, 48, 51, 50, 48, 49, 56, 49, 52, 48, 51, 87>>
    /\ ret = InvalidFormat

(* C19, as stated: TST::parse returns InvalidFormat unless at least 15     *)
(* characters follow the opening '('.                                      *)
C19_FifteenAfterParen ==
    ( /\ Returned("TST")
      /\ Ascii(call.body)
      /\ Len(call.body) - 1 < 15 )
    => ret = InvalidFormat

----------------------------------------------------------------------------
(* The octet string with a maximum.                                        *)

HasClose(body) == \E k \in 1..Len(body) : body[k] = 41

(* The position of the first ')' of a body.                                *)
FirstClose(body) ==
    CHOOSE k \in 1..Len(body) :
        body[k] = 41 /\ \A j \in 1..(k - 1) : body[j] # 41

(* What lies strictly between the '(' and the first ')'.                   *)
Content(body) == SubSeq(body, 2, FirstClose(body) - 1)

----------------------------------------------------------------------------
(* The State types of src/state and the conversion of a Telegram into one. *)
(* A State is a function from its slots to None or Some(value): one slot   *)
(* for every Option field, named by the array it lies in (or "-"), the     *)
(* index in that array, the struct that declares the field and the field.  *)

ObisForgotten == [kind |-> "ObisForgotten"]

Some(v) == [kind |-> "Some", v |-> v]

Slot(arr, i, of, f) == [arr |-> arr, i |-> i, of |-> of, f |-> f]

(* `l as usize`, `t as usize`, `s as usize`.                               *)
as_usize(idx) ==
    CASE idx \in { "Line1", "Tariff1", "Slave1" } -> 0
      [] idx \in { "Line2", "Tariff2", "Slave2" } -> 1
      [] idx \in { "Line3", "Slave3" } -> 2
      [] idx = "Slave4" -> 3

(* f64::from(&UFixedDouble): buffer / 10^point, as the decimal without     *)
(* trailing zeros, so that equal quotients are equal values.               *)
RECURSIVE f64_from(_)
f64_from(d) ==
    IF d.point > 0 /\ d.buffer % 10 = 0
    THEN f64_from([buffer |-> d.buffer \div 10, point |-> d.point - 1])
    ELSE [mantissa |-> d.buffer, decimals |-> d.point]

(* The i-th item of OctetString::as_octets.                                *)
as_octets_item(s, i) ==
    LET g == get(s, 2 * i, 2 * i + 2)
    IN  IF ~g.some THEN Panic
        ELSE LET r == from_str_radix(g.v, 16, MaxU8)
             IN  IF r.ok THEN Ok(r.v) ELSE InvalidFormat

(* octets.next().unwrap_or(Err(InvalidFormat)) for the i-th call.          *)
as_octets_next(s, i) ==
    IF i < Len(s) \div 2 THEN as_octets_item(s, i) ELSE InvalidFormat

Applied(s) == [kind |-> "Ok", s |-> s]

CommonSlots ==
    { Slot("-", 0, "common::State", f) :
        f \in { "datetime", "tariff_indicator", "power_delivered",
                "power_received", "power_failures", "long_power_failures" } }
    \cup { Slot("meterreadings", t, "common::MeterReading", f) :
             t \in 0..1, f \in { "to", "by" } }

(* common::State::apply that keeps the first reading a tariff took.        *)
common_State_apply_KeepFirst(s, o) ==
    LET flat(f) == Slot("-", 0, "common::State", f)
        reading(f) == Slot("meterreadings", as_usize(o.idx),
                           "common::MeterReading", f)
    IN  CASE o.tag = "DateTime" ->
               Applied([s EXCEPT ![flat("datetime")] = Some(o.v)])
          [] o.tag = "MeterReadingTo" ->
               IF s[reading("to")] # None THEN Applied(s)
               ELSE Applied([s EXCEPT ![reading("to")] = Some(f64_from(o.v))])
          [] o.tag = "MeterReadingBy" ->
               Applied([s EXCEPT ![reading("by")] = Some(f64_from(o.v))])
          [] o.tag = "TariffIndicator" ->
               LET b0 == as_octets_next(o.v, 0)
                   b1 == as_octets_next(o.v, 1)
               IN  IF b0.kind # "Ok" THEN b0
                   ELSE IF b1.kind # "Ok" THEN b1
                   ELSE Applied([s EXCEPT ![flat("tariff_indicator")] =
                                              Some(<<b0.v, b1.v>>)])
          [] o.tag = "PowerDelivered" ->
               Applied([s EXCEPT ![flat("power_delivered")] = Some(f64_from(o.v))])
          [] o.tag = "PowerReceived" ->
               Applied([s EXCEPT ![flat("power_received")] = Some(f64_from(o.v))])
          [] o.tag = "PowerFailures" ->
               Applied([s EXCEPT ![flat("power_failures")] = Some(o.v)])
          [] o.tag = "LongPowerFailures" ->
               Applied([s EXCEPT ![flat("long_power_failures")] = Some(o.v)])
          [] OTHER -> Applied(s)

(* common::State::apply that reports what it has no rule for.              *)
common_State_apply_Strict(s, o) ==
    LET flat(f) == Slot("-", 0, "common::State", f)
        reading(f) == Slot("meterreadings", as_usize(o.idx),
                           "common::MeterReading", f)
    IN  CASE o.tag = "DateTime" ->
               Applied([s EXCEPT ![flat("datetime")] = Some(o.v)])
          [] o.tag = "MeterReadingTo" ->
               Applied([s EXCEPT ![reading("to")] = Some(f64_from(o.v))])
          [] o.tag = "MeterReadingBy" ->
               Applied([s EXCEPT ![reading("by")] = Some(f64_from(o.v))])
          [] o.tag = "TariffIndicator" ->
               LET b0 == as_octets_next(o.v, 0)
                   b1 == as_octets_next(o.v, 1)
               IN  IF b0.kind # "Ok" THEN b0
                   ELSE IF b1.kind # "Ok" THEN b1
                   ELSE Applied([s EXCEPT ![flat("tariff_indicator")] =
                                              Some(<<b0.v, b1.v>>)])
          [] o.tag = "PowerDelivered" ->
               Applied([s EXCEPT ![flat("power_delivered")] = Some(f64_from(o.v))])
          [] o.tag = "PowerReceived" ->
               Applied([s EXCEPT ![flat("power_received")] = Some(f64_from(o.v))])
          [] o.tag = "PowerFailures" ->
               Applied([s EXCEPT ![flat("power_failures")] = Some(o.v)])
          [] o.tag = "LongPowerFailures" ->
               Applied([s EXCEPT ![flat("long_power_failures")] = Some(o.v)])
          [] OTHER -> ObisForgotten

(* common::State::apply, src/state/common.rs.                              *)
common_State_apply(s, o) ==
    LET flat(f) == Slot("-", 0, "common::State", f)
        reading(f) == Slot("meterreadings", as_usize(o.idx),
                           "common::MeterReading", f)
    IN  CASE o.tag = "DateTime" ->
               Applied([s EXCEPT ![flat("datetime")] = Some(o.v)])
          [] o.tag = "MeterReadingTo" ->
               Applied([s EXCEPT ![reading("to")] = Some(f64_from(o.v))])
          [] o.tag = "MeterReadingBy" ->
               Applied([s EXCEPT ![reading("by")] = Some(f64_from(o.v))])
          [] o.tag = "TariffIndicator" ->
               LET b0 == as_octets_next(o.v, 0)
                   b1 == as_octets_next(o.v, 1)
               IN  IF b0.kind # "Ok" THEN b0
                   ELSE IF b1.kind # "Ok" THEN b1
                   ELSE Applied([s EXCEPT ![flat("tariff_indicator")] =
                                              Some(<<b0.v, b1.v>>)])
          [] o.tag = "PowerDelivered" ->
               Applied([s EXCEPT ![flat("power_delivered")] = Some(f64_from(o.v))])
          [] o.tag = "PowerReceived" ->
               Applied([s EXCEPT ![flat("power_received")] = Some(f64_from(o.v))])
          [] o.tag = "PowerFailures" ->
               Applied([s EXCEPT ![flat("power_failures")] = Some(o.v)])
          [] o.tag = "LongPowerFailures" ->
               Applied([s EXCEPT ![flat("long_power_failures")] = Some(o.v)])
          [] OTHER -> Applied(s)

(* Message::line and Message::slave of dsmr4::OBIS, src/obis/dsmr4.rs.     *)
dsmr4_line(o) ==
    IF o.tag \in { "VoltageSags", "VoltageSwells", "InstantaneousCurrent",
                   "InstantaneousActivePowerPlus", "InstantaneousActivePowerNeg" }
    THEN Some(o.idx) ELSE None

dsmr4_slave(o) ==
    IF o.tag \in { "SlaveDeviceType", "SlaveEquipmentIdentifier",
                   "SlaveMeterReading" }
    THEN Some(o.idx) ELSE None

(* Message::line and Message::slave of dsmr5::OBIS, src/obis/dsmr5.rs.     *)
dsmr5_line(o) ==
    CASE o.tag = "DSMR4" -> dsmr4_line(o.v)
      [] o.tag = "InstantaneousVoltage" -> Some(o.idx)

dsmr5_slave(o) ==
    IF o.tag = "DSMR4" THEN dsmr4_slave(o.v) ELSE None

(* Message::line and Message::slave of e_mucs::OBIS, src/obis/e_mucs.rs.   *)
e_mucs_line(o) ==
    CASE o.tag = "DSMR5" -> dsmr5_line(o.v)
      [] o.tag = "InstantaneousCurrent" -> Some(o.idx)
      [] OTHER -> None

e_mucs_slave(o) ==
    CASE o.tag = "DSMR5" -> dsmr5_slave(o.v)
      [] o.tag \in { "SlaveMeterReadingNonCorrected", "SlaveValveState" } ->
           Some(o.idx)
      [] OTHER -> None

(* state::dsmr4::State of src/state/dsmr4.rs: a common::State, three       *)
(* common::Line and four common::Slave.                                    *)
Dsmr4Slots ==
    CommonSlots
    \cup { Slot("lines", i, "common::Line", f) :
             i \in 0..2,
             f \in { "voltage_sags", "voltage_swells", "voltage",
                     "active_power_plus", "active_power_neg", "current" } }
    \cup { Slot("slaves", i, "common::Slave", f) :
             i \in 0..3, f \in { "device_type", "meter_reading" } }

(* state::dsmr4::State::apply that stores every reading in its first line. *)
dsmr4_State_apply_FirstLine(s, o) ==
    LET line(f) == Slot("lines", 0, "common::Line", f)
        slave(f) == Slot("slaves", as_usize(o.idx), "common::Slave", f)
    IN  CASE o.tag = "VoltageSags" ->
               Applied([s EXCEPT ![line("voltage_sags")] = Some(o.v)])
          [] o.tag = "VoltageSwells" ->
               Applied([s EXCEPT ![line("voltage_swells")] = Some(o.v)])
          [] o.tag = "InstantaneousVoltage" ->
               Applied([s EXCEPT ![line("voltage")] = Some(f64_from(o.v))])
          [] o.tag = "InstantaneousActivePowerPlus" ->
               Applied([s EXCEPT ![line("active_power_plus")] = Some(f64_from(o.v))])
          [] o.tag = "InstantaneousActivePowerNeg" ->
               Applied([s EXCEPT ![line("active_power_neg")] = Some(f64_from(o.v))])
          [] o.tag = "InstantaneousCurrent" ->
               Applied([s EXCEPT ![line("current")] = Some(o.v)])
          [] o.tag = "SlaveDeviceType" ->
               Applied([s EXCEPT ![slave("device_type")] = Some(o.v)])
          [] o.tag = "SlaveMeterReading" ->
               Applied([s EXCEPT ![slave("meter_reading")] =
                                     Some(<<o.v[1], f64_from(o.v[2])>>)])
          [] OTHER -> common_State_apply(s, o)

(* state::dsmr4::State::apply, src/state/dsmr4.rs.                         *)
dsmr4_State_apply(s, o) ==
    LET line(f) == Slot("lines", as_usize(o.idx), "common::Line", f)
        slave(f) == Slot("slaves", as_usize(o.idx), "common::Slave", f)
    IN  CASE o.tag = "VoltageSags" ->
               Applied([s EXCEPT ![line("voltage_sags")] = Some(o.v)])
          [] o.tag = "VoltageSwells" ->
               Applied([s EXCEPT ![line("voltage_swells")] = Some(o.v)])
          [] o.tag = "InstantaneousVoltage" ->
               Applied([s EXCEPT ![line("voltage")] = Some(f64_from(o.v))])
          [] o.tag = "InstantaneousActivePowerPlus" ->
               Applied([s EXCEPT ![line("active_power_plus")] = Some(f64_from(o.v))])
          [] o.tag = "InstantaneousActivePowerNeg" ->
               Applied([s EXCEPT ![line("active_power_neg")] = Some(f64_from(o.v))])
          [] o.tag = "InstantaneousCurrent" ->
               Applied([s EXCEPT ![line("current")] = Some(o.v)])
          [] o.tag = "SlaveDeviceType" ->
               Applied([s EXCEPT ![slave("device_type")] = Some(o.v)])
          [] o.tag = "SlaveMeterReading" ->
               Applied([s EXCEPT ![slave("meter_reading")] =
                                     Some(<<o.v[1], f64_from(o.v[2])>>)])
          [] OTHER -> common_State_apply(s, o)

(* The reducers of one line and of one slave of the base layer, which      *)
(* state::dsmr5 calls as dsmr4::Line::apply and dsmr4::Slave::apply: a     *)
(* rule for every object that has a field in the slot, the reducer-gap     *)
(* error for the rest.  identifiers tells what the slave does with a       *)
(* SlaveEquipmentIdentifier, for which it has no field: "ignored" or       *)
(* "forgotten".                                                            *)
dsmr4_Line_apply(s, i, o) ==
    LET line(f) == Slot("lines", i, "dsmr4::Line", f)
    IN  CASE o.tag = "VoltageSags" ->
               Applied([s EXCEPT ![line("voltage_sags")] = Some(o.v)])
          [] o.tag = "VoltageSwells" ->
               Applied([s EXCEPT ![line("voltage_swells")] = Some(o.v)])
          [] o.tag = "InstantaneousActivePowerPlus" ->
               Applied([s EXCEPT ![line("active_power_plus")] = Some(f64_from(o.v))])
          [] o.tag = "InstantaneousActivePowerNeg" ->
               Applied([s EXCEPT ![line("active_power_neg")] = Some(f64_from(o.v))])
          [] o.tag = "InstantaneousCurrent" ->
               Applied([s EXCEPT ![line("current")] = Some(o.v)])
          [] OTHER -> ObisForgotten

dsmr4_Slave_apply(s, i, o, identifiers) ==
    LET slave(f) == Slot("slaves", i, "dsmr4::Slave", f)
    IN  CASE o.tag = "SlaveDeviceType" ->
               Applied([s EXCEPT ![slave("device_type")] = Some(o.v)])
          [] o.tag = "SlaveMeterReading" ->
               Applied([s EXCEPT ![slave("meter_reading")] =
                                     Some(<<o.v[1], f64_from(o.v[2])>>)])
          [] o.tag = "SlaveEquipmentIdentifier" /\ identifiers = "ignored" ->
               Applied(s)
          [] OTHER -> ObisForgotten

(* state::dsmr5::State of src/state/dsmr5.rs.                              *)
Dsmr5LineSlots(i) ==
    { Slot("lines", i, "dsmr4::Line", f) :
        f \in { "voltage_sags", "voltage_swells", "active_power_plus",
                "active_power_neg", "current" } }
    \cup { Slot("lines", i, "dsmr5::Line", "voltage") }

Dsmr5SlaveSlots(i) ==
    { Slot("slaves", i, "dsmr4::Slave", f) :
        f \in { "device_type", "meter_reading" } }

Dsmr5Slots ==
    CommonSlots
    \cup UNION { Dsmr5LineSlots(i) : i \in 0..2 }
    \cup UNION { Dsmr5SlaveSlots(i) : i \in 0..3 }

(* dsmr5::Line::apply, dsmr5::Slave::apply and dsmr5::State::apply.        *)
dsmr5_Line_apply(s, i, o) ==
    CASE o.tag = "InstantaneousVoltage" ->
           Applied([s EXCEPT ![Slot("lines", i, "dsmr5::Line", "voltage")] =
                                 Some(f64_from(o.v))])
      [] o.tag = "DSMR4" -> dsmr4_Line_apply(s, i, o.v)

dsmr5_Slave_apply(s, i, o, identifiers) ==
    CASE o.tag = "DSMR4" -> dsmr4_Slave_apply(s, i, o.v, identifiers)
      [] OTHER -> ObisForgotten

(* dsmr5::State::apply that hands every slave object to the first slave.  *)
dsmr5_State_apply_FirstSlave(s, o, identifiers) ==
    IF dsmr5_line(o) # None
    THEN dsmr5_Line_apply(s, as_usize(dsmr5_line(o).v), o)
    ELSE IF dsmr5_slave(o) # None
    THEN dsmr5_Slave_apply(s, 0, o, identifiers)
    ELSE CASE o.tag = "DSMR4" -> common_State_apply(s, o.v)
           [] OTHER -> ObisForgotten

dsmr5_State_apply(s, o, identifiers) ==
    IF dsmr5_line(o) # None
    THEN dsmr5_Line_apply(s, as_usize(dsmr5_line(o).v), o)
    ELSE IF dsmr5_slave(o) # None
    THEN dsmr5_Slave_apply(s, as_usize(dsmr5_slave(o).v), o, identifiers)
    ELSE CASE o.tag = "DSMR4" -> common_State_apply(s, o.v)
           [] OTHER -> ObisForgotten

(* state::e_mucs::State of src/state/e_mucs.rs.                            *)
EMucsSlots ==
    Dsmr5Slots
    \cup { Slot("-", 0, "e_mucs::State", f) :
             f \in { "breaker_state", "limiter_threshold",
                     "fuse_supervision_threshold", "average_demand" } }
    \cup { Slot("lines", i, "e_mucs::Line", "current") : i \in 0..2 }
    \cup { Slot("slaves", i, "e_mucs::Slave", "valve_state") : i \in 0..3 }

(* e_mucs::Line::apply, e_mucs::Slave::apply and e_mucs::State::apply.     *)
e_mucs_Line_apply(s, i, o) ==
    CASE o.tag = "InstantaneousCurrent" ->
           Applied([s EXCEPT ![Slot("lines", i, "e_mucs::Line", "current")] =
                                 Some(f64_from(o.v))])
      [] o.tag = "DSMR5" -> dsmr5_Line_apply(s, i, o.v)
      [] OTHER -> ObisForgotten

e_mucs_Slave_apply(s, i, o, identifiers) ==
    CASE o.tag = "DSMR5" -> dsmr5_Slave_apply(s, i, o.v, identifiers)
      [] o.tag = "SlaveValveState" ->
           Applied([s EXCEPT ![Slot("slaves", i, "e_mucs::Slave", "valve_state")] =
                                 Some(o.v)])
      [] OTHER -> ObisForgotten

e_mucs_State_apply(s, o, identifiers) ==
    LET flat(f) == Slot("-", 0, "e_mucs::State", f)
    IN  IF e_mucs_line(o) # None
        THEN e_mucs_Line_apply(s, as_usize(e_mucs_line(o).v), o)
        ELSE IF e_mucs_slave(o) # None
        THEN e_mucs_Slave_apply(s, as_usize(e_mucs_slave(o).v), o, identifiers)
        ELSE CASE o.tag = "DSMR5" /\ o.v.tag = "DSMR4" ->
                    common_State_apply(s, o.v.v)
               [] o.tag = "SlaveMeterReadingNonCorrected" -> Applied(s)
               [] o.tag = "BreakerState" ->
                    Applied([s EXCEPT ![flat("breaker_state")] = Some(o.v)])
               [] o.tag = "LimiterThreshold" ->
                    Applied([s EXCEPT ![flat("limiter_threshold")] =
                                          Some(f64_from(o.v))])
               [] o.tag = "FuseSupervisionThreshold" ->
                    Applied([s EXCEPT ![flat("fuse_supervision_threshold")] =
                                          Some(o.v)])
               [] o.tag = "CurrentAverageDemand" ->
                    Applied([s EXCEPT ![flat("average_demand")] =
                                          Some(f64_from(o.v))])
               [] o.tag = "MaximumDemandMonth" -> Applied(s)
               [] o.tag = "MaximumDemandYear" -> Applied(s)
               [] OTHER -> ObisForgotten

----------------------------------------------------------------------------
(* The conversion From<&Telegram> for Result<State>: try_fold over the    *)
(* items of Telegram::objects.                                             *)

MaxFold == 2

(* Body lines: the flat fields, the slaves, two lines, and lines in error. *)
CoreLines == {
    <<48, 45, 48, 58, 49, 46, 48, 46, 48, 40, 49, 57, 48, 51, 50, 48, 49, 56, 49, 52, 48, 51, 87, 41>>,   \* "0-0:1.0.0(190320181403W)"
    <<49, 45, 48, 58, 49, 46, 56, 46, 49, 40, 48, 48, 48, 53, 55, 54, 46, 50, 51, 57, 42, 107, 87, 104, 41>>,   \* "1-0:1.8.1(000576.239*kWh)"
    <<49, 45, 48, 58, 49, 46, 56, 46, 49, 40, 48, 48, 48, 52, 54, 53, 46, 49, 54, 50, 42, 107, 87, 104, 41>>,   \* "1-0:1.8.1(000465.162*kWh)"
    <<49, 45, 48, 58, 50, 46, 56, 46, 50, 40, 48, 48, 48, 48, 48, 48, 46, 52, 48, 55, 42, 107, 87, 104, 41>>,   \* "1-0:2.8.2(000000.407*kWh)"
    <<48, 45, 48, 58, 57, 54, 46, 49, 52, 46, 48, 40, 48, 48, 48, 50, 41>>,   \* "0-0:96.14.0(0002)"
    <<48, 45, 48, 58, 57, 54, 46, 49, 52, 46, 48, 40, 48, 120, 48, 50, 41>>,   \* "0-0:96.14.0(0x02)"
    <<49, 45, 51, 58, 48, 46, 50, 46, 56, 40, 53, 48, 41>>,   \* "1-3:0.2.8(50)"
    <<48, 45, 48, 58, 57, 54, 46, 49, 46, 49, 40, 52, 53, 51, 48, 41>>,   \* "0-0:96.1.1(4530)"
    <<48, 45, 48, 58, 57, 54, 46, 49, 51, 46, 48, 40, 41>>,   \* "0-0:96.13.0()"
    <<49, 45, 48, 58, 57, 57, 46, 57, 55, 46, 48, 40, 41>>,   \* "1-0:99.97.0()"
    <<49, 45, 48, 58, 50, 49, 46, 55, 46, 48, 40, 48, 48, 46, 49, 57, 51, 42, 107, 87, 41>>,   \* "1-0:21.7.0(00.193*kW)"
    <<49, 45, 48, 58, 50, 49, 46, 55, 46, 48, 40, 48, 49, 46, 57, 51, 48, 42, 107, 87, 41>>,   \* "1-0:21.7.0(01.930*kW)"
    <<49, 45, 48, 58, 52, 49, 46, 55, 46, 48, 40, 48, 48, 46, 49, 57, 51, 42, 107, 87, 41>>,   \* "1-0:41.7.0(00.193*kW)"
    <<48, 45, 49, 58, 50, 52, 46, 49, 46, 48, 40, 48, 48, 51, 41>>,   \* "0-1:24.1.0(003)"
    <<48, 45, 49, 58, 50, 52, 46, 50, 46, 49, 40, 49, 57, 48, 51, 50, 48, 49, 56, 49, 48, 48, 51, 87, 41, 40, 48, 48, 51, 48, 52, 46, 48, 56, 57, 42, 109, 51, 41>>,   \* "0-1:24.2.1(190320181003W)(00304.089*m3)"
    <<48, 45, 50, 58, 50, 52, 46, 50, 46, 49, 40, 49, 57, 48, 51, 50, 48, 49, 56, 49, 48, 48, 51, 87, 41, 40, 48, 48, 51, 48, 52, 46, 48, 56, 57, 42, 109, 51, 41>>,   \* "0-2:24.2.1(190320181003W)(00304.089*m3)"
    <<48, 45, 49, 58, 57, 54, 46, 49, 46, 48, 40, 52, 55, 51, 48, 41>>,   \* "0-1:96.1.0(4730)"
    <<48, 45, 49, 58, 50, 52, 46, 52, 46, 48, 40, 49, 41>>,   \* "0-1:24.4.0(1)"
    <<48, 45, 49, 58, 50, 52, 46, 50, 46, 51, 40, 49, 57, 48, 51, 50, 48, 49, 56, 49, 48, 48, 51, 87, 41, 40, 48, 48, 51, 48, 52, 46, 48, 56, 57, 42, 109, 51, 41>>,   \* "0-1:24.2.3(190320181003W)(00304.089*m3)"
    <<48, 45, 48, 58, 57, 54, 46, 51, 46, 49, 48, 40, 49, 41>>,   \* "0-0:96.3.10(1)"
    <<48, 45, 48, 58, 49, 55, 46, 48, 46, 48, 40, 57, 57, 57, 46, 57, 42, 107, 87, 41>>,   \* "0-0:17.0.0(999.9*kW)"
    <<49, 45, 48, 58, 49, 46, 54, 46, 48, 40, 49, 57, 48, 51, 50, 48, 49, 56, 49, 48, 48, 51, 87, 41, 40, 48, 49, 46, 49, 57, 51, 42, 107, 87, 41>>,   \* "1-0:1.6.0(190320181003W)(01.193*kW)"
    <<57, 45, 57, 58, 57, 46, 57, 46, 57, 40, 49, 41>>,   \* "9-9:9.9.9(1)"
    <<49, 45, 51, 58, 48, 46, 50, 46, 56>>   \* "1-3:0.2.8"
}

(* Body lines of the per-phase references.                                 *)
PhaseLines == {
    <<49, 45, 48, 58, 50, 49, 46, 55, 46, 48, 40, 48, 48, 46, 49, 57, 51, 42, 107, 87, 41>>,   \* "1-0:21.7.0(00.193*kW)"
    <<49, 45, 48, 58, 50, 50, 46, 55, 46, 48, 40, 48, 48, 46, 48, 48, 48, 42, 107, 87, 41>>,   \* "1-0:22.7.0(00.000*kW)"
    <<49, 45, 48, 58, 52, 49, 46, 55, 46, 48, 40, 48, 48, 46, 49, 57, 51, 42, 107, 87, 41>>,   \* "1-0:41.7.0(00.193*kW)"
    <<49, 45, 48, 58, 52, 50, 46, 55, 46, 48, 40, 48, 48, 46, 48, 48, 48, 42, 107, 87, 41>>,   \* "1-0:42.7.0(00.000*kW)"
    <<49, 45, 48, 58, 54, 49, 46, 55, 46, 48, 40, 48, 48, 46, 49, 57, 51, 42, 107, 87, 41>>,   \* "1-0:61.7.0(00.193*kW)"
    <<49, 45, 48, 58, 54, 50, 46, 55, 46, 48, 40, 48, 48, 46, 48, 48, 48, 42, 107, 87, 41>>,   \* "1-0:62.7.0(00.000*kW)"
    <<49, 45, 48, 58, 51, 50, 46, 55, 46, 48, 40, 50, 51, 54, 46, 49, 42, 86, 41>>,   \* "1-0:32.7.0(236.1*V)"
    <<49, 45, 48, 58, 53, 50, 46, 55, 46, 48, 40, 50, 51, 54, 46, 49, 42, 86, 41>>,   \* "1-0:52.7.0(236.1*V)"
    <<49, 45, 48, 58, 55, 50, 46, 55, 46, 48, 40, 50, 51, 54, 46, 49, 42, 86, 41>>,   \* "1-0:72.7.0(236.1*V)"
    <<49, 45, 48, 58, 51, 49, 46, 55, 46, 48, 40, 48, 48, 49, 42, 65, 41>>,   \* "1-0:31.7.0(001*A)"
    <<49, 45, 48, 58, 53, 49, 46, 55, 46, 48, 40, 48, 48, 49, 42, 65, 41>>,   \* "1-0:51.7.0(001*A)"
    <<49, 45, 48, 58, 55, 49, 46, 55, 46, 48, 40, 48, 48, 49, 42, 65, 41>>,   \* "1-0:71.7.0(001*A)"
    <<49, 45, 48, 58, 51, 49, 46, 55, 46, 48, 40, 48, 48, 49, 46, 50, 51, 42, 65, 41>>,   \* "1-0:31.7.0(001.23*A)"
    <<49, 45, 48, 58, 53, 49, 46, 55, 46, 48, 40, 48, 48, 49, 46, 50, 51, 42, 65, 41>>,   \* "1-0:51.7.0(001.23*A)"
    <<49, 45, 48, 58, 55, 49, 46, 55, 46, 48, 40, 48, 48, 49, 46, 50, 51, 42, 65, 41>>,   \* "1-0:71.7.0(001.23*A)"
    <<49, 45, 48, 58, 51, 50, 46, 51, 50, 46, 48, 40, 48, 48, 48, 48, 54, 41>>,   \* "1-0:32.32.0(00006)"
    <<49, 45, 48, 58, 51, 50, 46, 51, 54, 46, 48, 40, 48, 48, 48, 48, 49, 41>>   \* "1-0:32.36.0(00001)"
}

FoldLines == CoreLines \cup PhaseLines

StateTypes == { "common", "dsmr4", "dsmr5", "e_mucs" }

(* The OBIS type a State type folds: `use crate::obis::<layer>::*`.        *)
ObisOf(type) == IF type = "common" THEN "dsmr4" ELSE type

(* The items Telegram::objects::<OBIS> yields for the body lines.          *)
ItemOf == [l \in Layers |-> [ln \in FoldLines |-> parse_line_of(l, ln)]]

Item(layer, ln) == ItemOf[layer][ln]

(* State::default().                                                       *)
SlotsOf(type) ==
    CASE type = "common" -> CommonSlots
      [] type = "dsmr4" -> Dsmr4Slots
      [] type = "dsmr5" -> Dsmr5Slots
      [] type = "e_mucs" -> EMucsSlots

State_default(type) == [sl \in SlotsOf(type) |-> None]

(* state.apply(o) of the State type.                                       *)
State_apply(type, s, o, identifiers) ==
    CASE type = "common" -> common_State_apply(s, o)
      [] type = "dsmr4" -> dsmr4_State_apply(s, o)
      [] type = "dsmr5" -> dsmr5_State_apply(s, o, identifiers)
      [] type = "e_mucs" -> e_mucs_State_apply(s, o, identifiers)

SeqsUpTo(S, n) == UNION { [1..k -> S] : k \in 0..n }

Bodies_fold == SeqsUpTo(CoreLines, MaxFold) \cup SeqsUpTo(PhaseLines, MaxFold)

Conversions ==
    { [type |-> ty, lines |-> ls, identifiers |-> id] :
        ty \in StateTypes, ls \in Bodies_fold, id \in { "ignored", "forgotten" } }

FoldInit ==
    /\ \E c \in Conversions :
          /\ c.type \in { "common", "dsmr4" } => c.identifiers = "ignored"
          /\ fold = c
          /\ state = State_default(c.type)
    /\ applied = 0
    /\ converted = Pending
    /\ yielded = <<>>
    /\ input = <<>>
    /\ readout = <<>>
    /\ telegram = Pending
    /\ iter = Idle
    /\ NoReader
    /\ NoDispatch
    /\ NoCall

(* try_fold that skips a line in error and goes on.                        *)
try_fold_step_Skip ==
    /\ converted = Pending
    /\ applied < Len(fold.lines)
    /\ \E f \in {fold} : \E n \in {applied} : \E s \in {state} :
          \E o \in { Item(ObisOf(f.type), f.lines[n + 1]) } :
          \E r \in { IF o.kind # "Ok" THEN o
                     ELSE State_apply(f.type, s, o, f.identifiers) } :
              /\ yielded' = Append(yielded, o)
              /\ applied' = n + 1
              /\ IF r.kind = "Ok"
                 THEN state' = r.s /\ converted' = converted
                 ELSE state' = s /\ converted' = converted
    /\ UNCHANGED <<fold, stream, pos, results, spans, input, readout,
                   telegram, iter, objLine, parsed, call, ret>>

(* One round of try_fold: the iterator yields the next item; on an error   *)
(* item `o?` returns it, otherwise state.apply(o)? runs.                   *)
try_fold_step ==
    /\ converted = Pending
    /\ applied < Len(fold.lines)
    /\ \E f \in {fold} : \E n \in {applied} : \E s \in {state} :
          \E o \in { Item(ObisOf(f.type), f.lines[n + 1]) } :
          \E r \in { IF o.kind # "Ok" THEN o
                     ELSE State_apply(f.type, s, o, f.identifiers) } :
              /\ yielded' = Append(yielded, o)
              /\ applied' = n + 1
              /\ IF r.kind = "Ok"
                 THEN state' = r.s /\ converted' = converted
                 ELSE state' = s /\ converted' = r
    /\ UNCHANGED <<fold, stream, pos, results, spans, input, readout,
                   telegram, iter, objLine, parsed, call, ret>>

(* The iterator is exhausted: try_fold returns Ok(state).                  *)
try_fold_done ==
    /\ converted = Pending
    /\ applied = Len(fold.lines)
    /\ converted' = [kind |-> "Ok", s |-> state]
    /\ UNCHANGED <<fold, state, applied, yielded, stream, pos, results, spans,
                   input, readout, telegram, iter, objLine, parsed, call, ret>>

FoldNext == try_fold_step \/ try_fold_done

SpecFold == FoldInit /\ [][FoldNext]_vars

----------------------------------------------------------------------------
(* What the claims about the State types speak of, stated on the lines and *)
(* on the slots.                                                           *)

(* The object a layer has wrapped, whatever the wrapping.                  *)
RECURSIVE Innermost(_)
Innermost(o) ==
    IF o.tag \in { "DSMR4", "DSMR5" } THEN Innermost(o.v) ELSE o

(* The items try_fold has taken were all applied.                          *)
AllApplied == converted.kind \in { "Pending", "Ok" }

(* "1-0:XY.7.0" with XY one of 21 22 41 42 61 62, 32 52 72, 31 51 71.      *)
PhaseReference(r) ==
    /\ Len(r) = 10
    /\ SubSeq(r, 1, 4) = <<49, 45, 48, 58>>
    /\ SubSeq(r, 7, 10) = <<46, 55, 46, 48>>
    /\ \/ r[5] \in { 50, 52, 54 } /\ r[6] \in { 49, 50 }
       \/ r[5] \in { 51, 53, 55 } /\ r[6] \in { 49, 50 }

(* The phase of such a reference: 2x and 3x the first, 4x and 5x the       *)
(* second, 6x and 7x the third.                                            *)
PhaseOf(r) == (r[5] - 48) \div 2

(* The struct that holds the power readings of a line in a State type.     *)
LineOwner(type) == IF type = "dsmr4" THEN "common::Line" ELSE "dsmr4::Line"

(* A slot holds the decimal of width 5 and point 3 written in a field.     *)
HoldsReading(slot, field) ==
    /\ slot.kind = "Some"
    /\ DoubleOf(field, 5, 3).kind = "Ok"
    /\ slot.v.mantissa * TenTo(3)
         = DoubleOf(field, 5, 3).v.buffer * TenTo(slot.v.decimals)

----------------------------------------------------------------------------
(* The slot an object is for, and what it carries.                         *)

DoubleTags ==
    { "MeterReadingTo", "MeterReadingBy", "PowerDelivered", "PowerReceived",
      "InstantaneousVoltage", "InstantaneousActivePowerPlus",
      "InstantaneousActivePowerNeg", "LimiterThreshold",
      "CurrentAverageDemand" }

SlaveOwner(type) == IF type = "dsmr4" THEN "common::Slave" ELSE "dsmr4::Slave"

(* The slots of a State type that an object targets: one, or none.         *)
Targets(type, o) ==
    LET i == Innermost(o)
        n == as_usize(i.idx)
        flat(f) == { Slot("-", 0, "common::State", f) }
        own(f) == IF type = "e_mucs" THEN { Slot("-", 0, "e_mucs::State", f) }
                  ELSE {}
        line(f) == IF type = "common" THEN {}
                   ELSE { Slot("lines", n, LineOwner(type), f) }
        slave(f) == IF type = "common" THEN {}
                    ELSE { Slot("slaves", n, SlaveOwner(type), f) }
    IN  CASE i.tag = "DateTime" -> flat("datetime")
          [] i.tag = "MeterReadingTo" ->
               { Slot("meterreadings", n, "common::MeterReading", "to") }
          [] i.tag = "MeterReadingBy" ->
               { Slot("meterreadings", n, "common::MeterReading", "by") }
          [] i.tag = "TariffIndicator" -> flat("tariff_indicator")
          [] i.tag = "PowerDelivered" -> flat("power_delivered")
          [] i.tag = "PowerReceived" -> flat("power_received")
          [] i.tag = "PowerFailures" -> flat("power_failures")
          [] i.tag = "LongPowerFailures" -> flat("long_power_failures")
          [] i.tag = "VoltageSags" -> line("voltage_sags")
          [] i.tag = "VoltageSwells" -> line("voltage_swells")
          [] i.tag = "InstantaneousActivePowerPlus" -> line("active_power_plus")
          [] i.tag = "InstantaneousActivePowerNeg" -> line("active_power_neg")
          [] i.tag = "InstantaneousCurrent" ->
               IF o.tag = "InstantaneousCurrent" /\ type = "e_mucs"
               THEN { Slot("lines", n, "e_mucs::Line", "current") }
               ELSE line("current")
          [] i.tag = "InstantaneousVoltage" ->
               IF type \in { "dsmr5", "e_mucs" }
               THEN { Slot("lines", n, "dsmr5::Line", "voltage") }
               ELSE {}
          [] i.tag = "SlaveDeviceType" -> slave("device_type")
          [] i.tag = "SlaveMeterReading" -> slave("meter_reading")
          [] i.tag = "SlaveValveState" ->
               IF type = "e_mucs"
               THEN { Slot("slaves", n, "e_mucs::Slave", "valve_state") }
               ELSE {}
          [] i.tag = "BreakerState" -> own("breaker_state")
          [] i.tag = "LimiterThreshold" -> own("limiter_threshold")
          [] i.tag = "FuseSupervisionThreshold" -> own("fuse_supervision_threshold")
          [] i.tag = "CurrentAverageDemand" -> own("average_demand")
          [] OTHER -> {}

(* A decimal is the quotient of a fixed-point value.                       *)
SameQuotient(x, d) ==
    x.mantissa * TenTo(d.point) = d.buffer * TenTo(x.decimals)

(* A slot holds what an object carries.                                    *)
Holds(type, slot, o) ==
    LET i == Innermost(o)
    IN  /\ slot.kind = "Some"
        /\ CASE i.tag \in DoubleTags \/ (i.tag = "InstantaneousCurrent"
                                         /\ o.tag = "InstantaneousCurrent"
                                         /\ type = "e_mucs") ->
                  SameQuotient(slot.v, i.v)
             [] i.tag = "SlaveMeterReading" ->
                  slot.v[1] = i.v[1] /\ SameQuotient(slot.v[2], i.v[2])
             [] i.tag = "TariffIndicator" ->
                  slot.v = << 16 * HexDigitValue(i.v[1]) + HexDigitValue(i.v[2]),
                              16 * HexDigitValue(i.v[3]) + HexDigitValue(i.v[4]) >>
             [] OTHER -> slot.v = i.v

(* C22: while every apply has succeeded, each slot of the State holds what *)
(* the last object that targets it carries, and None when no object of the *)
(* sequence targets it.                                                    *)
C22_LastWriteWins ==
    (fold # <<>> /\ AllApplied) =>
        \A sl \in DOMAIN state :
            LET ks == { k \in 1..Len(yielded) : sl \in Targets(fold.type, yielded[k]) }
            IN  IF ks = {} THEN state[sl] = None
                ELSE Holds(fold.type, state[sl],
                           yielded[CHOOSE k \in ks : \A j \in ks : j <= k])

(* Two readings of tariff 1 were folded, 576.239 then 465.162, and the     *)
(* slot holds the second.                                                  *)
C22_Witness ==
    /\ fold # <<>>
    /\ converted.kind = "Ok"
    /\ Len(yielded) = 2
    /\ yielded[1].kind = "Ok"
    /\ yielded[2].kind = "Ok"
    /\ Innermost(yielded[1]).tag = "MeterReadingTo"
    /\ Innermost(yielded[1]).v = [buffer |-> 576239, point |-> 3]
    /\ Innermost(yielded[2]).tag = "MeterReadingTo"
    /\ Innermost(yielded[2]).v = [buffer |-> 465162, point |-> 3]
    /\ converted.s[Slot("meterreadings", 0, "common::MeterReading", "to")]
         = Some([mantissa |-> 465162, decimals |-> 3])

----------------------------------------------------------------------------
(* The conversion and its errors.                                          *)

(* What the k-th body line comes to on its own: the error of its decode or *)
(* of its apply, or Ok.                                                    *)
LineOutcome(k) ==
    LET o == Item(ObisOf(fold.type), fold.lines[k])
    IN  IF o.kind # "Ok" THEN o
        ELSE LET r == State_apply(fold.type, State_default(fold.type), o,
                                  fold.identifiers)
             IN  IF r.kind # "Ok" THEN r ELSE [kind |-> "Ok"]

LinesInError == { k \in 1..Len(fold.lines) : LineOutcome(k).kind # "Ok" }

FirstInError == CHOOSE k \in LinesInError : \A j \in LinesInError : k <= j

(* C23: the conversion takes the body lines in order and stops at the      *)
(* first line whose decode or apply returns an error, InvalidFormat,       *)
(* UnknownObis or ObisForgotten: it returns that error and no State, and   *)
(* takes no later line; without such a line it returns a State.            *)
C23_StopsAtFirstError ==
    fold # <<>> =>
        /\ Len(yielded) = applied
        /\ LinesInError # {} => applied <= FirstInError
        /\ converted.kind = "Ok" =>
              LinesInError = {} /\ applied = Len(fold.lines)
        /\ converted.kind \notin { "Pending", "Ok" } =>
              /\ LinesInError # {}
              /\ applied = FirstInError
              /\ converted = LineOutcome(FirstInError)
              /\ converted.kind \in { "InvalidFormat", "UnknownObis", "ObisForgotten" }
              /\ DOMAIN converted = { "kind" }

(* The apply of the first of two lines returned InvalidFormat, and the     *)
(* conversion returned it with the second line not taken.                  *)
C23_Witness ==
    /\ fold # <<>>
    /\ Len(fold.lines) = 2
    /\ applied = 1
    /\ yielded[1].kind = "Ok"
    /\ converted = InvalidFormat
    /\ LineOutcome(2).kind = "Ok"

----------------------------------------------------------------------------
(* The objects without a field in any State.                               *)

IgnoredTags ==
    { "Version", "EquipmentIdentifier", "TextMessage", "TextMessageCode",
      "PowerFailureEventLog" }

(* C24, as the code has it: the apply of a base-layer Version,             *)
(* EquipmentIdentifier, TextMessage, TextMessageCode or                    *)
(* PowerFailureEventLog returns Ok and leaves the State as it is, in every *)
(* State type.                                                             *)
C24_IgnoredObjects ==
    [][ ( /\ fold # <<>>
          /\ applied' = applied + 1
          /\ yielded'[applied'].kind = "Ok"
          /\ Innermost(yielded'[applied']).tag \in IgnoredTags )
        => (converted' = Pending /\ state' = state) ]_vars

(* A Version line alone was converted into an e_mucs State with every slot *)
(* None.                                                                   *)
C24_Witness ==
    /\ fold # <<>>
    /\ fold.type = "e_mucs"
    /\ Len(yielded) = 1
    /\ yielded[1].kind = "Ok"
    /\ Innermost(yielded[1]).tag = "Version"
    /\ converted.kind = "Ok"
    /\ \A sl \in DOMAIN converted.s : converted.s[sl] = None

(* C24, as stated: the apply of an object the dispatcher recognizes and no *)
(* reducer layer has a rule for, such as a base-layer Version,             *)
(* EquipmentIdentifier, TextMessage or PowerFailureEventLog, returns       *)
(* ObisForgotten.                                                          *)
C24_GapIsObisForgotten ==
    ( /\ fold # <<>>
      /\ applied > 0
      /\ yielded[applied].kind = "Ok"
      /\ Innermost(yielded[applied]).tag
            \in { "Version", "EquipmentIdentifier", "TextMessage",
                  "PowerFailureEventLog" } )
    => converted = ObisForgotten

----------------------------------------------------------------------------
(* The accessors and the arrays.                                           *)

(* o.line() and o.slave() of the OBIS type a State type folds.             *)
LineOf(type, o) ==
    CASE type = "e_mucs" -> e_mucs_line(o)
      [] type = "dsmr5" -> dsmr5_line(o)
      [] OTHER -> dsmr4_line(o)

SlaveOf(type, o) ==
    CASE type = "e_mucs" -> e_mucs_slave(o)
      [] type = "dsmr5" -> dsmr5_slave(o)
      [] OTHER -> dsmr4_slave(o)

(* The slots an apply of o may change.                                     *)
MayChange(type, o, sl) ==
    IF LineOf(type, o) # None
    THEN sl.arr = "lines" /\ sl.i = as_usize(LineOf(type, o).v)
    ELSE IF SlaveOf(type, o) # None
    THEN sl.arr = "slaves" /\ sl.i = as_usize(SlaveOf(type, o).v)
    ELSE sl.arr \notin { "lines", "slaves" }

(* C27: the apply of an object whose line accessor returns Line i changes  *)
(* only lines[i], of one whose slave accessor returns Slave s only         *)
(* slaves[s], of one with neither no element of lines or slaves; every     *)
(* other slot of the State is left as it was.                              *)
C27_ApplyFrame ==
    [][ ( /\ fold # <<>>
          /\ fold.type # "common"
          /\ applied' = applied + 1
          /\ yielded'[applied'].kind = "Ok" )
        => \A sl \in DOMAIN state :
              state'[sl] # state[sl]
                 => MayChange(fold.type, yielded'[applied'], sl) ]_vars

(* A valve state of the second slave was applied after a reading of the    *)
(* first line: slaves[1] took it and lines[0] kept its reading.            *)
C27_Witness ==
    /\ fold # <<>>
    /\ fold.type = "e_mucs"
    /\ Len(yielded) = 2
    /\ converted.kind = "Ok"
    /\ e_mucs_line(yielded[1]) = Some("Line1")
    /\ e_mucs_slave(yielded[2]) = Some("Slave2")
    /\ state[Slot("lines", 0, "dsmr4::Line", "active_power_plus")] # None
    /\ state[Slot("slaves", 1, "dsmr4::Slave", "meter_reading")] # None
    /\ \A sl \in DOMAIN state :
          state[sl] # None =>
             sl \in { Slot("lines", 0, "dsmr4::Line", "active_power_plus"),
                      Slot("slaves", 1, "dsmr4::Slave", "meter_reading") }

(* C28: the conversion into an e_mucs State never fails with               *)
(* ObisForgotten on what the e_mucs dispatcher yields; a                   *)
(* SlaveMeterReadingNonCorrected is applied with Ok and leaves the State   *)
(* as it was.                                                              *)
C28_NoReducerGap ==
    ( /\ fold # <<>>
      /\ fold.type = "e_mucs"
      /\ fold.identifiers = "ignored" )
    => converted # ObisForgotten

----------------------------------------------------------------------------
(* Reader::next: the capacity of the buffer, the span of a frame and the   *)
(* failing item.                                                           *)

(* The first terminator of s after position a, 0 when there is none.       *)
NextBang(s, a) ==
    IF \E j \in (a + 1)..Len(s) : s[j] = Bang
    THEN CHOOSE j \in (a + 1)..Len(s) :
            s[j] = Bang /\ \A h \in (a + 1)..(j - 1) : s[h] # Bang
    ELSE 0

(* After the start marker at a the source holds BufLen bytes, and the      *)
(* frame they begin does not end within the BufLen bytes from a on.        *)
Overflows(s, a) ==
    /\ a + BufLen <= Len(s)
    /\ Bytes(s, a + 1, a + BufLen)
    /\ \A j \in (a + 1)..(a + BufLen - 1 - CrcLen) : s[j] # Bang

(* C25: Reader::next yields BufferOverFlow exactly when a byte arrives     *)
(* while it is copying and the buffer is full: a frame of at most BufLen   *)
(* bytes from '/' through its last checksum byte is yielded as a Readout,  *)
(* a frame that needs one byte more yields BufferOverFlow, also when only  *)
(* its checksum bytes do not fit, and no call copies more than BufLen      *)
(* bytes.                                                                  *)
C25_OverflowWhenFull ==
    \A k \in Calls :
        LET a == spans[k].start
        IN  /\ results[k] = BufferOverFlow <=> (a # 0 /\ Overflows(stream, a))
            /\ results[k] = BufferOverFlow => spans[k].after = a + BufLen
            /\ \A b \in 1..Len(stream) :
                    (a # 0 /\ WellFormedAt(stream, a, b))
                    => results[k] = Readout(Padded(SubSeq(stream, a, b)))
            /\ results[k].kind = "Readout"
                => /\ spans[k].after - a + 1 <= BufLen
                   /\ DOMAIN results[k].buffer = 1..BufLen

(* A call overflows on a checksum byte: the terminator was copied.         *)
C25_Witness ==
    \E k \in Calls :
        /\ results[k] = BufferOverFlow
        /\ \E j \in (spans[k].start + 1)..(spans[k].start + BufLen - 1) :
                stream[j] = Bang

(* C26: a Readout holds '/', every byte up to and including the first '!', *)
(* and exactly CrcLen bytes more; the call took no item after the last     *)
(* checksum byte, and the next call seeks from the item right after it.    *)
C26_ReadoutSpan ==
    \A k \in Calls :
        results[k].kind = "Readout" =>
            LET a == spans[k].start
                j == NextBang(stream, a)
            IN  /\ a # 0 /\ stream[a] = Slash
                /\ j # 0
                /\ spans[k].after = j + CrcLen
                /\ results[k].buffer = Padded(SubSeq(stream, a, j + CrcLen))
                /\ k < Len(results) =>
                        /\ spans[k + 1].before = j + CrcLen
                        /\ j + CrcLen < Len(stream)
                           => LET n == stream[j + CrcLen + 1]
                              IN  /\ n = Slash
                                     => spans[k + 1].start = j + CrcLen + 1
                                  /\ n = IoErr
                                     => /\ results[k + 1] = IOError
                                        /\ spans[k + 1].after = j + CrcLen + 1

(* A Readout was yielded, and the call after it found a start marker right *)
(* after the checksum.                                                     *)
C26_Witness ==
    \E k \in Calls :
        /\ results[k].kind = "Readout"
        /\ k < Len(results)
        /\ spans[k + 1].start = spans[k].after + 1

(* The first failing item of s after position p, 0 when there is none.     *)
FirstErr(s, p) ==
    IF \E e \in (p + 1)..Len(s) : s[e] = IoErr
    THEN CHOOSE e \in (p + 1)..Len(s) :
            s[e] = IoErr /\ \A h \in (p + 1)..(e - 1) : s[h] # IoErr
    ELSE 0

(* A call that starts after position p takes the failing item at e: it has *)
(* found no start marker before e, or it is still copying the frame begun  *)
(* at a when e arrives.                                                    *)
ReachesErr(s, p, e) ==
    LET a == NextSlash(s, p)
    IN  \/ a = 0 \/ a > e
        \/ /\ a < e
           /\ e - a <= BufLen
           /\ \A j \in (a + 1)..(e - 1 - CrcLen) : s[j] # Bang

(* C30: when the source yields a failing item, the call that takes it      *)
(* yields IOError at once, while seeking and while copying; what was       *)
(* copied is dropped, and the next call seeks from the item after the      *)
(* failing one.                                                            *)
C30_IoErrorAtOnce ==
    \A k \in Calls :
        LET p == spans[k].before
            e == FirstErr(stream, p)
        IN  /\ results[k] = IOError
               <=> (e # 0 /\ ReachesErr(stream, p, e))
            /\ results[k] = IOError
               => /\ spans[k].after = e
                  /\ k < Len(results) =>
                        /\ spans[k + 1].before = e
                        /\ results[k + 1]
                           = ReaderNext(SubSeq(stream, e + 1, Len(stream)), 0).item

(* A call failed while copying, and the call after it yielded a Readout.   *)
C30_Witness ==
    \E k \in Calls :
        /\ results[k] = IOError
        /\ spans[k].start # 0
        /\ k < Len(results)
        /\ results[k + 1].kind = "Readout"

(* A call failed while seeking.                                            *)
C30_SeekingCase ==
    \E k \in Calls : results[k] = IOError /\ spans[k].start = 0

----------------------------------------------------------------------------
(* The point of a sub-meter reading: 9 - period as u8.                     *)

(* The line is a sub-meter reading of the layer: "0-n:24.2.1" with n in    *)
(* 1..4, in e_mucs also "0-n:24.2.3", and two value groups with a '.' in   *)
(* the second.                                                             *)
IsSlaveReading(l, ln) ==
    /\ HasParen(ln)
    /\ Len(RefOf(ln)) = 10
    /\ SubSeq(RefOf(ln), 1, 2) = <<48, 45>>
    /\ RefOf(ln)[3] \in 49..52
    /\ RefOf(ln)[4] = 58
    /\ \/ SubSeq(RefOf(ln), 5, 10) = <<50, 52, 46, 50, 46, 49>>
       \/ l = "e_mucs" /\ SubSeq(RefOf(ln), 5, 10) = <<50, 52, 46, 50, 46, 51>>
    /\ TwoFields(FieldsOf(ln))
    /\ HasDot(SecondGroup(FieldsOf(ln)))

(* C29: for every sub-meter reading line a dispatcher processes, the point *)
(* 9 - (index of the first '.' of the second group) and the split index    *)
(* 8 - point stay within 0..8; a second group whose first '.' is at an     *)
(* index above 9 is rejected with InvalidFormat, and no subtraction        *)
(* underflows.                                                             *)
C29_PointWithinRange ==
    \A l \in ParsedLayers :
        IsSlaveReading(l, objLine)
        => LET period == DotIndex(SecondGroup(FieldsOf(objLine)))
           IN  /\ parsed[l] # Panic
               /\ period > 9 => parsed[l] = InvalidFormat
               /\ period <= 9 => /\ 9 - period \in 0..8
                                 /\ 8 - (9 - period) \in 0..8

====
